---------------------------- MODULE Spec2Model ----------------------------
(***************************************************************************)
(* A model of http_req: the deadline channel I/O of stream.rs              *)
(* (send_all, receive, receive_all, execute_with_deadline), the chunked    *)
(* decoder of chunked.rs, and the request executor of request.rs.          *)
(*                                                                         *)
(* Bytes are their ASCII codes.  Each subsystem has its own specification  *)
(* (ChanSpec, ChunkSpec, ReqSpec, ...) over its own variables; the         *)
(* variables of the other subsystems stay at their initial values.         *)
(***************************************************************************)
EXTENDS Integers, Sequences, FiniteSets, TLC

(***************************************************************************)
(* Bounds of the model.                                                    *)
(***************************************************************************)
\* Length of the byte source the producer reads (bytes 1..MaxSrc).
MaxSrc == 3
\* Last instant of the clock; the deadline is drawn from 0..MaxTime-1 so
\* that it can always pass.
MaxTime == 3
\* stream.rs:19 has BUF_SIZE = 16 * 1000; the model scales the read buffer
\* of send_all down so that one source takes several reads.
BUF_SIZE == 2

(***************************************************************************)
(* General helpers.                                                        *)
(***************************************************************************)
Min(a, b) == IF a < b THEN a ELSE b

Take(s, k) == SubSeq(s, 1, k)

Drop(s, k) == SubSeq(s, k + 1, Len(s))

IsPrefix(p, s) == Len(p) <= Len(s) /\ Take(s, Len(p)) = p

RECURSIVE Flatten(_)
Flatten(ss) == IF ss = <<>> THEN <<>> ELSE Head(ss) \o Flatten(Tail(ss))

(***************************************************************************)
(* State of the deadline channel I/O (stream.rs).                          *)
(***************************************************************************)
VARIABLES
    source,        \* bytes the producer's reader has not delivered yet
    filled_buf,    \* send_all: the bytes of the last read, not yet sent
    ppc,           \* producer: "read" | "send" | "returned" | "dropped"
    pread,         \* history: bytes the producer read from the source
    sentMsgs,      \* history: the messages the producer sent successfully
    chan,          \* the mpsc channel: queue of messages (byte vectors)
    rcvAlive,      \* the Receiver has not been dropped
    writer,        \* bytes written to the consumer's writer
    cmode,         \* consumer operation: "receive" | "receive_all" | "generic"
    cpc,           \* consumer: "top" | "func" | "done"
    cres,          \* consumer result: "none" | "Ok" | "Timeout" | "IO"
    now,           \* the clock (Instant::now())
    deadline,      \* the whole-request deadline
    sampled,       \* the value of `now` sampled by the consumer
    remaining_time,\* deadline - now as passed to recv_timeout / func
    rdl,           \* instant at which the pending recv_timeout expires
    funcRes,       \* last result of func: "none"|"OkTrue"|"OkFalse"|"ErrIO"|"ErrTimeout"
    topTimeout,    \* execute_with_deadline found the deadline passed
    lastRecv,      \* outcome of the last recv_timeout: "none"|"msg"|"Timeout"|"Disconnected"
    nrecv,         \* number of messages the consumer took from the channel
    wfailed        \* a write to the writer has failed

(***************************************************************************)
(* State of the chunked decoder (chunked.rs): a ChunkReader over a         *)
(* BufReader over the underlying reader, and the call of read in progress. *)
(***************************************************************************)
VARIABLES
    csrc,          \* bytes the underlying reader has not delivered yet
    faulty,        \* the underlying reader may return errors
    rbuf,          \* BufReader: the buffered bytes, reader.buffer()
    check_end,     \* ChunkReader.check_end
    eof,           \* ChunkReader.eof
    err,           \* ChunkReader.err: "none" or the ErrorKind
    n,             \* ChunkReader.n: bytes left in the current chunk
    kpc,           \* read: "idle" | "loop" | "footer" | "line"
    buf_len,       \* read: buf.len() of the call in progress
    consumed,      \* read: consumed
    cbuf,          \* read: the bytes copied to buf[..consumed]
    footer,        \* read_exact(&mut footer): the bytes read so far
    line,          \* read_until(b'\n', &mut line): the bytes read so far
    out,           \* history: the bytes returned to the caller by Ok(count)
    lastRet,       \* history: result of the last read, <<"Ok", k>> or <<"Err", kind>>
    expected,      \* the payloads encoded in the stream, concatenated
    wellFormed,    \* the stream is a well-formed chunked stream
    spin           \* history: flipped by each pass of the loop whose data
                   \* read returned Ok(0), a pass that changes nothing else

chunkVars == <<csrc, faulty, rbuf, check_end, eof, err, n, kpc, buf_len,
               consumed, cbuf, footer, line, out, lastRet, expected,
               wellFormed, spin>>

(***************************************************************************)
(* State of a request (request.rs): Request::send over a connection whose  *)
(* peer delivers the bytes of stream and then closes.                      *)
(***************************************************************************)
VARIABLES
    method,        \* RequestBuilder.method: "GET" | "HEAD"
    stream,        \* bytes the peer has not delivered yet
    sfaulty,       \* connecting, and reads and writes of the stream, may fail
    requests,      \* number of request messages written to a stream
    buf,           \* copy_until: buf
    read,          \* copy_until: read
    spc,           \* send: "connect"|"write"|"pre"|"bytes"|"parse"|"copy"|"done"
    result,        \* outcome of send: "none" | "Ok" | "Err" | "panic"
    response,      \* the Response built by from_head: [code, headers]
    rwriter,       \* the caller's writer: the bytes written to it
    sentHead,      \* the head the peer sends, through its blank line
    sentBody       \* the bytes the peer sends after the head

reqVars == <<method, stream, sfaulty, requests, buf, read, spc, result,
             response, rwriter, sentHead, sentBody>>

(***************************************************************************)
(* State of the redirect loop of section 4.8 of the specification.         *)
(***************************************************************************)
VARIABLES
    chain,         \* the responses of the hosts: chain[u] answers a request to u
    current,       \* the URI of the request in progress
    limit,         \* RedirectPolicy::Limit(n): the counter n
    limit0,        \* history: the counter when send was called
    hops,          \* history: number of redirects followed
    issued,        \* history: number of requests issued
    follows,       \* history: the results of the calls of follow, in order
    dpc,           \* "request" | "done"
    final          \* the response send returns: a member of chain, or "none"

redirVars == <<chain, current, limit, limit0, hops, issued, follows, dpc,
               final>>

(***************************************************************************)
(* State of one call of begin_chunk on a given size line (chunked.rs).     *)
(***************************************************************************)
VARIABLES
    hexLine,       \* the line read_until returned, line ending included
    hexRes         \* what begin_chunk left: [err, word, eof]

hexVars == <<hexLine, hexRes>>

(***************************************************************************)
(* State of connect_with_timeout (stream.rs:205-233).                      *)
(***************************************************************************)
VARIABLES
    resolves,      \* to_socket_addrs succeeds
    addrs,         \* what connecting to each resolved address does
    idx,           \* the loop: index of the next address, from 0
    attempts,      \* history: the addresses tried, in order
    connRet,       \* what the call returned: <<"none">>, <<"Ok", address>>
                   \* or <<"Err", kind, address>>
    npc            \* "resolve" | "loop" | "done"

connVars == <<resolves, addrs, idx, attempts, connRet, npc>>

(***************************************************************************)
(* State of Stream::try_to_https (stream.rs:50-74).                        *)
(***************************************************************************)
VARIABLES
    tlsIn,         \* the stream passed in: [secure, tcp]
    tlsScheme,     \* uri.scheme()
    tlsHost,       \* uri.host() is Some
    tlsCert,       \* root_cert_file_pem: "None", or a file "good" or "bad"
    tlsShakes,     \* the handshake of cnf.connect succeeds
    tlsRet,        \* the result: <<"none">>, <<"Ok", stream>> or <<"Err", e>>
    handshakes,    \* history: number of calls of cnf.connect
    certLoads,     \* history: number of calls of add_root_cert_file_pem
    tpc            \* "match" | "host" | "cert" | "connect" | "done"

tlsVars == <<tlsIn, tlsScheme, tlsHost, tlsCert, tlsShakes, tlsRet, handshakes, certLoads, tpc>>

(***************************************************************************)
(* State of one call of Uri::try_from on a given string (uri.rs).          *)
(***************************************************************************)
VARIABLES
    uriStr,        \* the &str handed to Uri::try_from
    uriRes,        \* what try_from returned: [ret, scheme, authority, ...]
    uriFmt         \* what to_string() of the parsed Uri gave; <<>> before

uriVars == <<uriStr, uriRes, uriFmt>>

(***************************************************************************)
(* State of a RequestBuilder (request.rs:172-178) and the message          *)
(* parse_msg builds from it.                                               *)
(***************************************************************************)
VARIABLES
    bmethod,       \* self.method
    bheaders,      \* self.headers: the map, a function from names to values
    bbody,         \* self.body: [some, bytes]
    calls,         \* number of calls of the setters so far
    lastCall,      \* the last setter called: "new", "method", "header", "body"
    request_msg    \* what parse_msg returned; <<>> before the call

msgVars == <<bmethod, bheaders, bbody, calls, lastCall, request_msg>>

(***************************************************************************)
(* State of one send_head (stream.rs:136-139) with the read_head it calls  *)
(* (stream.rs:272-292) on a BufRead.                                       *)
(***************************************************************************)
VARIABLES
    horig,         \* every byte of the source, as it was at the start
    hreader,       \* bytes the underlying reader has not given out yet
    hbuffer,       \* the BufReader's buffer: read from the source, not consumed
    hfaulty,       \* the underlying reader may return an error
    hbuf,          \* buf of read_head
    hlen,          \* bytes the read_until in progress has appended
    hfailed,       \* read_until returned Err
    hpc,           \* "idle", "line" (in read_until), "send", "done"
    hrcv,          \* the Receiver of the channel exists
    hsent          \* the messages sent on the channel

headVars == <<horig, hreader, hbuffer, hfaulty, hbuf, hlen, hfailed, hpc, hrcv, hsent>>

(***************************************************************************)
(* State of one Uri::from_relative (uri.rs:277-294) on the parsed Uri of   *)
(* uriStr.                                                                 *)
(***************************************************************************)
VARIABLES
    relStr,        \* relative_uri as the caller gave it
    relOut         \* [ret, str]: the result of the call and the string written

relVars == <<relStr, relOut>>

(***************************************************************************)
(* State of one pass of the data branch of ChunkReader::read               *)
(* (chunked.rs:59-72) with self.n kept as a 64-bit word.                   *)
(***************************************************************************)
VARIABLES
    eline,         \* the digits of the size line begin_chunk parsed
    ebuild,        \* "debug" (overflow checks) or "release" (wrapping)
    ebuf_len,      \* buf.len()
    econsumed,     \* consumed
    en,            \* self.n, a word of 16 hex digits
    eend,          \* end
    epc,           \* "start", "read", "done"
    eret           \* "none", "ok", or the panic

endVars == <<eline, ebuild, ebuf_len, econsumed, en, eend, epc, eret>>

(***************************************************************************)
(* State of Request::send (request.rs:790-812) up to the end of the write  *)
(* of the request message.                                                 *)
(***************************************************************************)
VARIABLES
    qscheme,       \* self.inner.uri.scheme()
    qcert,         \* root_cert_file_pem: "None", or a file "good" or "bad"
    qshakes,       \* the TLS handshake with the host succeeds
    qfaulty,       \* connecting, the socket options and writes may fail
    qpc,           \* "connect", "timeouts", "scheme", "cert", "handshake",
                   \* "plain", "secure", "done"
    qret,          \* "none", "Ok", or the step that returned Err
    qhands,        \* number of TLS handshakes completed
    plainOut,      \* bytes of the message written to the TcpStream itself
    tlsOut         \* bytes of the message written to the TLS stream

secVars == <<qscheme, qcert, qshakes, qfaulty, qpc, qret, qhands, plainOut, tlsOut>>

\* The producer's variables, the consumer's, and the parameters of a run.
prodVars == <<source, filled_buf, ppc, pread, sentMsgs>>

consVars == <<writer, cpc, cres, sampled, remaining_time, rdl, funcRes,
              topTimeout, lastRecv, nrecv, wfailed>>

runVars == <<cmode, deadline>>

chanVars == <<prodVars, consVars, runVars, chan, rcvAlive, now>>

nonChanVars == <<chunkVars, reqVars, redirVars, hexVars, connVars, tlsVars, uriVars, msgVars, headVars, relVars, endVars, secVars>>

nonChunkVars == <<chanVars, reqVars, redirVars, hexVars, connVars, tlsVars, uriVars, msgVars, headVars, relVars, endVars, secVars>>

nonReqVars == <<chanVars, chunkVars, redirVars, hexVars, connVars, tlsVars, uriVars, msgVars, headVars, relVars, endVars, secVars>>

nonRedirVars == <<chanVars, chunkVars, reqVars, hexVars, connVars, tlsVars, uriVars, msgVars, headVars, relVars, endVars, secVars>>

nonHexVars == <<chanVars, chunkVars, reqVars, redirVars, connVars, tlsVars, uriVars, msgVars, headVars, relVars, endVars, secVars>>

nonConnVars == <<chanVars, chunkVars, reqVars, redirVars, hexVars, tlsVars, uriVars, msgVars, headVars, relVars, endVars, secVars>>

nonTlsVars == <<chanVars, chunkVars, reqVars, redirVars, hexVars, connVars, uriVars, msgVars, headVars, relVars, endVars, secVars>>

nonUriVars == <<chanVars, chunkVars, reqVars, redirVars, hexVars, connVars, tlsVars, msgVars, headVars, relVars, endVars, secVars>>

nonMsgVars == <<chanVars, chunkVars, reqVars, redirVars, hexVars, connVars, tlsVars, uriVars, headVars, relVars, endVars, secVars>>

nonHeadVars == <<chanVars, chunkVars, reqVars, redirVars, hexVars, connVars, tlsVars, uriVars, msgVars, relVars, endVars, secVars>>

nonRelVars == <<chanVars, chunkVars, reqVars, redirVars, hexVars, connVars, tlsVars, uriVars, msgVars, headVars, endVars, secVars>>

nonEndVars == <<chanVars, chunkVars, reqVars, redirVars, hexVars, connVars, tlsVars, uriVars, msgVars, headVars, relVars, secVars>>

nonSecVars == <<chanVars, chunkVars, reqVars, redirVars, hexVars, connVars, tlsVars, uriVars, msgVars, headVars, relVars, endVars>>

vars == <<chanVars, chunkVars, reqVars, redirVars, hexVars, connVars, tlsVars, uriVars, msgVars, headVars, relVars, endVars, secVars>>

\* No Request::send in progress.
SecParked ==
    /\ qscheme = "http"
    /\ qcert = "None"
    /\ qshakes = FALSE
    /\ qfaulty = FALSE
    /\ qpc = "done"
    /\ qret = "none"
    /\ qhands = 0
    /\ plainOut = <<>>
    /\ tlsOut = <<>>


\* No pass of the data branch in progress.
EndParked ==
    /\ eline = <<>>
    /\ ebuild = "debug"
    /\ ebuf_len = 0
    /\ econsumed = 0
    /\ en = <<>>
    /\ eend = 0
    /\ epc = "done"
    /\ eret = "none"


\* from_relative has not been called.
RelUnset == [ret |-> "unset", str |-> <<>>]

RelParked ==
    /\ relStr = <<>>
    /\ relOut = RelUnset


\* No send_head in progress: an empty source, nothing sent.
HeadParked ==
    /\ horig = <<>>
    /\ hreader = <<>>
    /\ hbuffer = <<>>
    /\ hfaulty = FALSE
    /\ hbuf = <<>>
    /\ hlen = 0
    /\ hfailed = FALSE
    /\ hpc = "done"
    /\ hrcv = FALSE
    /\ hsent = <<>>


\* A builder on which parse_msg has not been called: GET, no header, no
\* body.
NoHeaders == [name \in {} |-> <<>>]

NoBody == [some |-> FALSE, bytes |-> <<>>]

MsgParked ==
    /\ bmethod = "GET"
    /\ bheaders = NoHeaders
    /\ bbody = NoBody
    /\ calls = 0
    /\ lastCall = "new"
    /\ request_msg = <<>>


\* Option<RangeC>: None, and Some(RangeC::new(a, b)) (uri.rs:34-36).
None == [some |-> FALSE, start |-> 0, end |-> 0]

Some(a, b) == [some |-> TRUE, start |-> a, end |-> b]

\* Option<Authority>: no authority.
NoAuthority ==
    [some |-> FALSE, inner |-> <<>>, username |-> None, password |-> None,
     host |-> None, port |-> None]

\* Uri::try_from has not run.
UriUnset ==
    [ret |-> "unset", scheme |-> None, authority |-> NoAuthority,
     path |-> None, query |-> None, fragment |-> None]

\* No string under study.
UriParked ==
    /\ uriStr = <<>>
    /\ uriRes = UriUnset
    /\ uriFmt = <<>>


\* No upgrade under way.
TlsParked ==
    /\ tlsIn = [secure |-> FALSE, tcp |-> 0]
    /\ tlsScheme = "http"
    /\ tlsHost = TRUE
    /\ tlsCert = "None"
    /\ tlsShakes = TRUE
    /\ tlsRet = <<"none">>
    /\ handshakes = 0
    /\ certLoads = 0
    /\ tpc = "done"


\* No connection under way.
ConnParked ==
    /\ resolves = TRUE
    /\ addrs = <<>>
    /\ idx = 0
    /\ attempts = <<>>
    /\ connRet = <<"none">>
    /\ npc = "done"


\* begin_chunk has not run.
HexUnset == [err |-> "unset", word |-> <<>>, eof |-> FALSE]

\* No size line under study.
HexParked ==
    /\ hexLine = <<>>
    /\ hexRes = HexUnset

\* A request that is over before it began.
ReqParked ==
    /\ method = "GET"
    /\ stream = <<>>
    /\ sfaulty = FALSE
    /\ requests = 0
    /\ buf = <<>>
    /\ read = 0
    /\ spc = "done"
    /\ result = "none"
    /\ response = [code |-> 0, headers |-> <<>>]
    /\ rwriter = <<>>
    /\ sentHead = <<>>
    /\ sentBody = <<>>

\* A redirect loop that is over before it began.
RedirParked ==
    /\ chain = <<>>
    /\ current = 0
    /\ limit = 0
    /\ limit0 = 0
    /\ hops = 0
    /\ issued = 0
    /\ follows = <<>>
    /\ dpc = "done"
    /\ final = "none"

\* A ChunkReader that is not in use (the state of ChunkReader::new on an
\* empty reader).
ChunkParked ==
    /\ csrc = <<>>
    /\ faulty = FALSE
    /\ rbuf = <<>>
    /\ check_end = FALSE
    /\ eof = FALSE
    /\ err = "none"
    /\ n = 0
    /\ kpc = "idle"
    /\ buf_len = 0
    /\ consumed = 0
    /\ cbuf = <<>>
    /\ footer = <<>>
    /\ line = <<>>
    /\ out = <<>>
    /\ lastRet = <<"none", 0>>
    /\ expected = <<>>
    /\ wellFormed = TRUE
    /\ spin = FALSE

\* The bytes the producer sent successfully.
psent == Flatten(sentMsgs)

\* The source of the producer: the bytes 1, 2, ..., k in this order.
Source(k) == [i \in 1..k |-> i]

\* No channel in use.
ChanParked ==
    /\ source = <<>>
    /\ filled_buf = <<>>
    /\ ppc = "dropped"
    /\ pread = <<>>
    /\ sentMsgs = <<>>
    /\ chan = <<>>
    /\ rcvAlive = FALSE
    /\ writer = <<>>
    /\ cmode = "receive"
    /\ cpc = "done"
    /\ cres = "none"
    /\ now = 0
    /\ deadline = 0
    /\ sampled = 0
    /\ remaining_time = 0
    /\ rdl = 0
    /\ funcRes = "none"
    /\ topTimeout = FALSE
    /\ lastRecv = "none"
    /\ nrecv = 0
    /\ wfailed = FALSE

ChanInit ==
    /\ SecParked
    /\ EndParked
    /\ RelParked
    /\ HeadParked
    /\ MsgParked
    /\ UriParked
    /\ TlsParked
    /\ ConnParked
    /\ HexParked
    /\ ChunkParked
    /\ ReqParked
    /\ RedirParked
    /\ source \in {Source(k) : k \in 0..MaxSrc}
    /\ filled_buf = <<>>
    /\ ppc = "read"
    /\ pread = <<>>
    /\ sentMsgs = <<>>
    /\ chan = <<>>
    /\ rcvAlive = TRUE
    /\ writer = <<>>
    /\ cmode \in {"receive", "receive_all", "generic"}
    /\ cpc = "top"
    /\ cres = "none"
    /\ now = 0
    /\ deadline \in 0..(MaxTime - 1)
    /\ sampled = 0
    /\ remaining_time = 0
    /\ rdl = 0
    /\ funcRes = "none"
    /\ topTimeout = FALSE
    /\ lastRecv = "none"
    /\ nrecv = 0
    /\ wfailed = FALSE


(***************************************************************************)
(* The clock.  Time passes between any two steps of the threads.           *)
(***************************************************************************)
Tick ==
    /\ now < MaxTime
    /\ now' = now + 1
    /\ UNCHANGED <<nonChanVars, prodVars, consVars, runVars, chan, rcvAlive>>

(***************************************************************************)
(* Producer: ThreadSend::send_all (stream.rs:141-155), run by a thread     *)
(* that owns the Sender and drops it when it ends.                         *)
(***************************************************************************)
\* The lengths self.read(&mut buf) can return on a source with bytes left:
\* at least one byte, at most the buffer.
ReadLens(src) == 1..Min(BUF_SIZE, Len(src))

\* Mutant of FilledBuf: the whole zeroed buffer is sent, not buf[..len].
FilledBufWhole(src, len) == Take(src, len) \o [i \in 1..(BUF_SIZE - len) |-> 0]

\* buf[..len].to_vec(): the filled part of the buffer.
FilledBuf(src, len) == Take(src, len)

\* self.read(&mut buf): Ok(len) with len > 0; the bytes go to filled_buf.
PReadOk ==
    /\ ppc = "read"
    /\ source # <<>>
    /\ \E len \in ReadLens(source) :
          /\ filled_buf' = FilledBuf(source, len)
          /\ pread' = pread \o Take(source, len)
          /\ source' = Drop(source, len)
    /\ ppc' = "send"
    /\ UNCHANGED <<nonChanVars, sentMsgs, consVars, runVars, chan, rcvAlive, now>>

\* self.read(&mut buf): Ok(0) at end of stream: break.
PReadEof ==
    /\ ppc = "read"
    /\ source = <<>>
    /\ ppc' = "returned"
    /\ UNCHANGED <<nonChanVars, source, filled_buf, pread, sentMsgs, consVars, runVars, chan,
                   rcvAlive, now>>

\* self.read(&mut buf): Err(_) (a socket error, a read timeout): break.
PReadErr ==
    /\ ppc = "read"
    /\ ppc' = "returned"
    /\ UNCHANGED <<nonChanVars, source, filled_buf, pread, sentMsgs, consVars, runVars, chan,
                   rcvAlive, now>>

\* A send that succeeds without a Receiver.
SendOkAlways(alive) == TRUE

\* sender.send(filled_buf): fails iff the Receiver was dropped.
SendOk(alive) == alive

PSend ==
    /\ ppc = "send"
    /\ IF SendOk(rcvAlive)
          THEN /\ chan' = Append(chan, filled_buf)
               /\ sentMsgs' = Append(sentMsgs, filled_buf)
               /\ ppc' = "read"
          ELSE /\ ppc' = "returned"
               /\ UNCHANGED <<nonChanVars, chan, sentMsgs>>
    /\ filled_buf' = <<>>
    /\ UNCHANGED <<nonChanVars, source, pread, consVars, runVars, rcvAlive, now>>

\* send_all has returned: the producer thread ends and drops the Sender.
PDrop ==
    /\ ppc = "returned"
    /\ ppc' = "dropped"
    /\ UNCHANGED <<nonChanVars, source, filled_buf, pread, sentMsgs, consVars, runVars, chan,
                   rcvAlive, now>>

(***************************************************************************)
(* Consumer: ThreadReceive::receive / receive_all and                      *)
(* execute_with_deadline (stream.rs:174-201, 246-266).                     *)
(***************************************************************************)
\* Mutant of Remaining: a fixed wait that ignores the deadline.
RemainingFixed(d, t) == MaxTime + 1

\* deadline - now on Instants: a Duration, zero when now is later.
Remaining(d, t) == IF d > t THEN d - t ELSE 0

\* Mutant of DeadlinePassed: the check is late by one instant.
DeadlinePassedLate(d, t) == d + 1 < t

\* if deadline < now { return Err(Error::Timeout) }
DeadlinePassed(d, t) == d < t

\* receiver.recv_timeout(t) called at instant rdl - t: a queued message
\* first, then the disconnection, then the timeout; otherwise it blocks.
RecvOutcome(q, senderDropped, clock, expiry) ==
    IF q # <<>> THEN "msg"
    ELSE IF senderDropped THEN "Disconnected"
    ELSE IF clock >= expiry THEN "Timeout"
    ELSE "block"

\* match func(remaining_time): Ok(true) => break, Ok(false) => continue,
\* Err(e) => return Err(e).
LoopPc(r) == IF r = "OkFalse" THEN "top" ELSE "done"

LoopResult(r) ==
    CASE r = "OkTrue" -> "Ok"
      [] r = "ErrIO" -> "IO"
      [] r = "ErrTimeout" -> "Timeout"
      [] OTHER -> "none"

\* receive: let now = Instant::now(); receiver.recv_timeout(deadline - now).
ReceiveCall ==
    /\ cmode = "receive"
    /\ cpc = "top"
    /\ sampled' = now
    /\ remaining_time' = Remaining(deadline, now)
    /\ rdl' = now + Remaining(deadline, now)
    /\ cpc' = "func"
    /\ UNCHANGED <<nonChanVars, prodVars, runVars, chan, rcvAlive, now, writer, cres, funcRes,
                   topTimeout, lastRecv, nrecv, wfailed>>

\* execute_with_deadline, top of the loop: sample the clock, compute the
\* remaining time, return Timeout when the deadline has passed, else
\* invoke func(remaining_time).
LoopTop ==
    /\ cmode \in {"receive_all", "generic"}
    /\ cpc = "top"
    /\ sampled' = now
    /\ remaining_time' = Remaining(deadline, now)
    /\ IF DeadlinePassed(deadline, now)
          THEN /\ cpc' = "done"
               /\ cres' = "Timeout"
               /\ topTimeout' = TRUE
               /\ UNCHANGED rdl
          ELSE /\ cpc' = "func"
               /\ rdl' = now + Remaining(deadline, now)
               /\ UNCHANGED <<nonChanVars, cres, topTimeout>>
    /\ UNCHANGED <<nonChanVars, prodVars, runVars, chan, rcvAlive, now, writer, funcRes, lastRecv,
                   nrecv, wfailed>>

\* Mutant of RecvRes: a failed write is ignored and the loop goes on.
RecvResIgnoreWrite(outcome, wrote) ==
    CASE outcome = "msg" -> "OkFalse"
      [] outcome = "Timeout" -> "ErrTimeout"
      [] OTHER -> "OkTrue"

\* Mutant of RecvRes: a disconnect is reported as an error.
RecvResDisconnectIsError(outcome, wrote) ==
    CASE outcome = "msg" /\ wrote -> "OkFalse"
      [] outcome = "msg" /\ ~wrote -> "ErrIO"
      [] outcome = "Timeout" -> "ErrTimeout"
      [] OTHER -> "ErrIO"

\* The Result<bool> of the closure of receive_all for one recv_timeout
\* outcome (stream.rs:190-199).
RecvRes(outcome, wrote) ==
    CASE outcome = "msg" /\ wrote -> "OkFalse"
      [] outcome = "msg" /\ ~wrote -> "ErrIO"
      [] outcome = "Timeout" -> "ErrTimeout"
      [] OTHER -> "OkTrue"

\* Mutant of ReceiveResult: a timeout is reported as success.
ReceiveResultNoTimeout(outcome, wrote) ==
    CASE outcome = "msg" /\ ~wrote -> "IO"
      [] OTHER -> "Ok"

\* The Result of receive for one recv_timeout outcome (stream.rs:177-181).
ReceiveResult(outcome, wrote) ==
    CASE outcome = "msg" /\ wrote -> "Ok"
      [] outcome = "msg" /\ ~wrote -> "IO"
      [] outcome = "Timeout" -> "Timeout"
      [] OTHER -> "Ok"

\* recv_timeout returns a message and self.write_all(&data_read) writes it:
\* either all of it, or a proper prefix of it and then an error.
RecvMsg ==
    /\ cmode \in {"receive", "receive_all"}
    /\ cpc = "func"
    /\ RecvOutcome(chan, ppc = "dropped", now, rdl) = "msg"
    /\ chan' = Tail(chan)
    /\ nrecv' = nrecv + 1
    /\ lastRecv' = "msg"
    /\ \E wrote \in BOOLEAN :
          /\ \/ wrote /\ writer' = writer \o Head(chan)
             \/ /\ ~wrote
                /\ \E k \in 0..(Len(Head(chan)) - 1) :
                      writer' = writer \o Take(Head(chan), k)
          /\ wfailed' = ~wrote
          /\ IF cmode = "receive"
                THEN /\ cres' = ReceiveResult("msg", wrote)
                     /\ cpc' = "done"
                     /\ UNCHANGED funcRes
                ELSE /\ funcRes' = RecvRes("msg", wrote)
                     /\ cpc' = LoopPc(RecvRes("msg", wrote))
                     /\ cres' = LoopResult(RecvRes("msg", wrote))
    /\ UNCHANGED <<nonChanVars, prodVars, runVars, rcvAlive, now, sampled, remaining_time, rdl,
                   topTimeout>>

\* recv_timeout returns Err(Timeout) or Err(Disconnected).
RecvErr ==
    /\ cmode \in {"receive", "receive_all"}
    /\ cpc = "func"
    /\ RecvOutcome(chan, ppc = "dropped", now, rdl) \in {"Timeout", "Disconnected"}
    /\ lastRecv' = RecvOutcome(chan, ppc = "dropped", now, rdl)
    /\ IF cmode = "receive"
          THEN /\ cres' = ReceiveResult(lastRecv', TRUE)
               /\ UNCHANGED funcRes
          ELSE /\ funcRes' = RecvRes(lastRecv', TRUE)
               /\ cres' = LoopResult(RecvRes(lastRecv', TRUE))
    /\ cpc' = "done"
    /\ UNCHANGED <<nonChanVars, prodVars, runVars, chan, rcvAlive, now, writer, sampled,
                   remaining_time, rdl, topTimeout, nrecv, wfailed>>

\* execute_with_deadline with an arbitrary func: func returns any
\* Result<bool, Error> after any time.
FuncResults == {"OkTrue", "OkFalse", "ErrIO", "ErrTimeout"}

FuncReturn ==
    /\ cmode = "generic"
    /\ cpc = "func"
    /\ \E r \in FuncResults :
          /\ funcRes' = r
          /\ cpc' = LoopPc(r)
          /\ cres' = LoopResult(r)
    /\ UNCHANGED <<nonChanVars, prodVars, runVars, chan, rcvAlive, now, writer, sampled,
                   remaining_time, rdl, topTimeout, lastRecv, nrecv, wfailed>>

\* The consumer has returned and drops the Receiver.
CDrop ==
    /\ cpc = "done"
    /\ rcvAlive
    /\ rcvAlive' = FALSE
    /\ UNCHANGED <<nonChanVars, prodVars, consVars, runVars, chan, now>>

Producer == PReadOk \/ PReadEof \/ PReadErr \/ PSend \/ PDrop

Consumer == ReceiveCall \/ LoopTop \/ RecvMsg \/ RecvErr \/ FuncReturn \/ CDrop

ChanNext == Tick \/ Producer \/ Consumer

ChanSpec == ChanInit /\ [][ChanNext]_vars

\* The consumer thread is scheduled and time passes; nothing is assumed of
\* the producer, whose reads may block for ever.
FairChanSpec == ChanSpec /\ WF_vars(Tick) /\ WF_vars(Consumer)

\* The producer thread is scheduled, and every read of its source returns
\* (data, end of stream or an error such as the read timeout).
FairProdSpec == ChanSpec /\ WF_vars(Producer)


(***************************************************************************)
(* The chunked decoder: pure helpers (chunked.rs:161-241).                 *)
(***************************************************************************)
\* lib.rs:30: CR_LF = b"\r\n".
CR_LF == <<13, 10>>

\* lib.rs:31: LF = 0xA.
LF == 10

\* chunked.rs:9.
MAX_LINE_LENGTH == 4096

\* Capacity of the BufReader (BufReader::new); the model scales std's
\* 8192 down, keeping it above the two bytes of a chunk trailer.
BufCap == 6

\* Largest caller buffer passed to read.
MaxBuf == 3

\* Number of payload bytes encoded in a stream.
MaxPayload == 2

\* First index of byte b in s, 0 when absent: iter().position(|&c| c == b).
RECURSIVE PositionFrom(_, _, _)
PositionFrom(s, b, i) ==
    IF i > Len(s) THEN 0
    ELSE IF s[i] = b THEN i
    ELSE PositionFrom(s, b, i + 1)

Position(s, b) == PositionFrom(s, b, 1)

\* b' ' | b'\t' | b'\n' | b'\r'
is_ascii_space(b) == b \in {32, 9, 10, 13}

\* A digit value that knows no upper-case digit.
HexValNoUpper(b) ==
    IF b >= 48 /\ b <= 57 THEN b - 48
    ELSE IF b >= 97 /\ b <= 102 THEN b - 97 + 10
    ELSE -1

\* The value of a hex digit, -1 for any other byte (chunked.rs:185-190).
HexVal(b) ==
    IF b >= 48 /\ b <= 57 THEN b - 48
    ELSE IF b >= 97 /\ b <= 102 THEN b - 97 + 10
    ELSE IF b >= 65 /\ b <= 70 THEN b - 65 + 10
    ELSE -1

\* usize of the 64-bit targets, in hex digits of four bits: a word is the
\* sequence of its WordNibbles hex digits, most significant first.
WordNibbles == 16

ZeroWord == [i \in 1..WordNibbles |-> 0]

\* n <<= 4; n |= vv as usize: the top hex digit is shifted out, and vv
\* fills the four zero bits shifted in.
ShlOr(w, vv) == Append(Tail(w), vv)

\* parse_hex_uint: the loop over data.iter().enumerate(), from index i
\* (1-based) with accumulator acc.
RECURSIVE ParseHexFrom(_, _, _)
ParseHexFrom(data, i, acc) ==
    IF i > Len(data) THEN [ok |-> TRUE, word |-> acc]
    ELSE IF i - 1 = 16 THEN [ok |-> FALSE, word |-> ZeroWord]
    ELSE IF HexVal(data[i]) < 0 THEN [ok |-> FALSE, word |-> ZeroWord]
    ELSE ParseHexFrom(data, i + 1, ShlOr(acc, HexVal(data[i])))

\* parse_hex_uint, the result as a word.
parse_hex_word(data) == ParseHexFrom(data, 1, ZeroWord)

\* The number the low 28 bits of a word stand for: the whole word for the
\* chunk sizes of the streams the decoder is run on.
WordToInt(w) ==
    w[WordNibbles] + 16 * w[WordNibbles - 1] + 256 * w[WordNibbles - 2]
        + 4096 * w[WordNibbles - 3] + 65536 * w[WordNibbles - 4]
        + 1048576 * w[WordNibbles - 5] + 16777216 * w[WordNibbles - 6]

parse_hex_uint(data) ==
    [ok |-> parse_hex_word(data).ok,
     val |-> WordToInt(parse_hex_word(data).word)]

\* trim_trailing_whitespace: pop while the last byte is an ASCII space.
RECURSIVE trim_trailing_whitespace(_)
trim_trailing_whitespace(v) ==
    IF v = <<>> THEN v
    ELSE IF ~is_ascii_space(v[Len(v)]) THEN v
    ELSE trim_trailing_whitespace(Take(v, Len(v) - 1))

\* remove_chunk_extension: truncate at the first ';'.
remove_chunk_extension(v) ==
    IF Position(v, 59) > 0 THEN Take(v, Position(v, 59) - 1) ELSE v

\* read_chunk_line after read_until: the length check, then the trimming
\* and the removal of the extension, in this order.
ChunkLine(raw) ==
    IF Len(raw) > MAX_LINE_LENGTH
        THEN [ok |-> FALSE, line |-> <<>>]
        ELSE [ok |-> TRUE,
              line |-> remove_chunk_extension(trim_trailing_whitespace(raw))]

(***************************************************************************)
(* The streams the decoder is run on.                                      *)
(***************************************************************************)
\* The i-th payload byte: 'a', LF, 'c', 'd', ...
PayloadByte(i) == IF i = 2 THEN 10 ELSE 96 + i

Payload(k) == [i \in 1..k |-> PayloadByte(i)]

RECURSIVE SumSeq(_)
SumSeq(c) == IF c = <<>> THEN 0 ELSE Head(c) + SumSeq(Tail(c))

\* The ways to cut k payload bytes into chunks: the sequences of positive
\* sizes of sum k.
Compositions(k) ==
    {c \in UNION {[1..m -> 1..k] : m \in 0..k} : SumSeq(c) = k}

\* The hex digits of v, lower case.
RECURSIVE ToHex(_)
ToHex(v) ==
    IF v < 16 THEN <<(IF v < 10 THEN 48 + v ELSE 87 + v)>>
    ELSE ToHex(v \div 16) \o ToHex(v % 16)

\* A size line: the hex size, an optional chunk extension ";x", CR LF.
SizeLine(size, style) ==
    ToHex(size) \o (IF style = "ext" THEN <<59, 120>> ELSE <<>>) \o CR_LF

\* The bytes after the data of a chunk: CR LF; in the style "bad" CR 'x';
\* in the style "blank" CR LF and an empty line.
Trailer(style) ==
    CASE style = "bad" -> <<13, 120>>
      [] style = "blank" -> CR_LF \o CR_LF
      [] OTHER -> CR_LF

\* The chunks of sizes c cut from payload bytes off+1.., each as size line,
\* data, trailer.
RECURSIVE EncodeChunks(_, _, _)
EncodeChunks(c, off, style) ==
    IF c = <<>> THEN <<>>
    ELSE SizeLine(Head(c), style)
         \o [i \in 1..Head(c) |-> PayloadByte(off + i)]
         \o Trailer(style)
         \o EncodeChunks(Tail(c), off + Head(c), style)

\* A chunked stream: the chunks, then the zero-size chunk; well-formed
\* unless a chunk has a bad trailer or an empty line after it.
Encode(c, style) == EncodeChunks(c, 0, style) \o SizeLine(0, style)

(***************************************************************************)
(* ChunkReader::read (chunked.rs:26-85), one step per pass through a part  *)
(* of the loop body; each step makes at most one read of the underlying    *)
(* reader.                                                                 *)
(***************************************************************************)
ChunkInit ==
    /\ SecParked
    /\ EndParked
    /\ RelParked
    /\ HeadParked
    /\ MsgParked
    /\ UriParked
    /\ TlsParked
    /\ ConnParked
    /\ HexParked
    /\ ChanParked
    /\ ReqParked
    /\ RedirParked
    /\ \E k \in 0..MaxPayload : \E c \in Compositions(k) :
       \E style \in {"plain", "ext", "bad", "blank"} :
       \E tail \in {<<>>, CR_LF} :
       \E cut \in 0..Len(Encode(c, style) \o tail) :
          /\ csrc = Take(Encode(c, style) \o tail, cut)
          /\ expected = Payload(k)
          /\ wellFormed = (/\ cut = Len(Encode(c, style) \o tail)
                           /\ (style \in {"bad", "blank"} => c = <<>>))
    /\ faulty \in BOOLEAN
    /\ rbuf = <<>>
    /\ check_end = FALSE
    /\ eof = FALSE
    /\ err = "none"
    /\ n = 0
    /\ kpc = "idle"
    /\ buf_len = 0
    /\ consumed = 0
    /\ cbuf = <<>>
    /\ footer = <<>>
    /\ line = <<>>
    /\ out = <<>>
    /\ lastRet = <<"none", 0>>
    /\ spin = FALSE

\* The caller calls read(buf) with a non-empty buffer.
ReadCall ==
    /\ kpc = "idle"
    /\ \E len \in 1..MaxBuf : buf_len' = len
    /\ consumed' = 0
    /\ cbuf' = <<>>
    /\ kpc' = "loop"
    /\ UNCHANGED <<nonChunkVars, spin, csrc, faulty, rbuf, check_end, eof, err, n,
                   footer, line, out, lastRet, expected, wellFormed>>

\* The end of read: match self.err.as_ref() { Some(v) => Err(..),
\* None => Ok(consumed) }, with e the value of self.err.
ReturnWith(e) ==
    /\ kpc' = "idle"
    /\ lastRet' = IF e # "none" THEN <<"Err", e>> ELSE <<"Ok", consumed>>
    /\ out' = IF e # "none" THEN out ELSE out \o cbuf
    /\ UNCHANGED <<buf_len, consumed, cbuf>>

\* while !self.eof && self.err.is_none(): the condition is false.
LoopExit ==
    /\ kpc = "loop"
    /\ eof \/ err # "none"
    /\ ReturnWith(err)
    /\ UNCHANGED <<nonChunkVars, spin, csrc, faulty, rbuf, check_end, eof, err, n,
                   footer, line, expected, wellFormed>>

\* A check that lets the trailer be read with one byte buffered.
TrailerNotBufferedOneByte(cnt, buffered) == cnt > 0 /\ Len(buffered) < 1

\* if consumed > 0 && self.reader.buffer().len() < 2 { break }
TrailerNotBuffered(cnt, buffered) == cnt > 0 /\ Len(buffered) < 2

TrailerBreak ==
    /\ kpc = "loop" /\ ~eof /\ err = "none"
    /\ check_end
    /\ TrailerNotBuffered(consumed, rbuf)
    /\ ReturnWith(err)
    /\ UNCHANGED <<nonChunkVars, spin, csrc, faulty, rbuf, check_end, eof, err, n,
                   footer, line, expected, wellFormed>>

\* self.reader.read_exact(&mut footer) begins.
TrailerStart ==
    /\ kpc = "loop" /\ ~eof /\ err = "none"
    /\ check_end
    /\ ~TrailerNotBuffered(consumed, rbuf)
    /\ kpc' = "footer"
    /\ footer' = <<>>
    /\ UNCHANGED <<nonChunkVars, spin, csrc, faulty, rbuf, check_end, eof, err, n,
                   buf_len, consumed, cbuf, line, out, lastRet, expected,
                   wellFormed>>

\* The lengths one read of the underlying reader can return into a buffer
\* of room bytes: 0 at end of stream, else 1..room.
InnerReadLens(room) ==
    IF csrc = <<>> THEN {0} ELSE 1..Min(room, Len(csrc))

\* The trailer has been read: it must be CR LF.
TrailerOk(f) == f = CR_LF

\* read_exact, after the bytes got joined footer: either it goes on, or it
\* is complete and the trailer is checked.
FooterGot(f) ==
    IF Len(f) < 2
        THEN /\ footer' = f
             /\ kpc' = "footer"
             /\ UNCHANGED <<check_end, err, out, lastRet>>
    ELSE IF TrailerOk(f)
        THEN /\ footer' = f
             /\ kpc' = "loop"
             /\ check_end' = FALSE
             /\ UNCHANGED <<err, out, lastRet>>
    ELSE /\ footer' = f
         /\ err' = "InvalidData"
         /\ ReturnWith("InvalidData")
         /\ UNCHANGED check_end

\* One read of read_exact(&mut footer): from the BufReader's buffer, or
\* from the underlying reader through the buffer.
FooterRead ==
    /\ kpc = "footer"
    /\ \/ /\ rbuf # <<>>
          /\ LET m == Min(Len(rbuf), 2 - Len(footer)) IN
                /\ rbuf' = Drop(rbuf, m)
                /\ FooterGot(footer \o Take(rbuf, m))
          /\ UNCHANGED <<csrc, buf_len, consumed, cbuf>>
       \/ /\ rbuf = <<>>
          /\ csrc # <<>>
          /\ \E k \in InnerReadLens(BufCap) :
                LET m == Min(k, 2 - Len(footer)) IN
                /\ csrc' = Drop(csrc, k)
                /\ rbuf' = SubSeq(csrc, m + 1, k)
                /\ FooterGot(footer \o Take(csrc, m))
          /\ UNCHANGED <<buf_len, consumed, cbuf>>
    /\ UNCHANGED <<nonChunkVars, spin, faulty, eof, n, line, expected, wellFormed>>

\* read_exact fails (end of stream: UnexpectedEof; or an error of the
\* underlying reader): is_ok() is false, the error is dropped and
\* check_end is cleared.
FooterFail ==
    /\ kpc = "footer"
    /\ rbuf = <<>>
    /\ csrc = <<>> \/ faulty
    /\ kpc' = "loop"
    /\ check_end' = FALSE
    /\ UNCHANGED <<nonChunkVars, spin, csrc, faulty, rbuf, eof, err, n, buf_len,
                   consumed, cbuf, footer, line, out, lastRet, expected,
                   wellFormed>>

\* chunk_header_available: the buffer holds a LF.
chunk_header_available(buffered) == Position(buffered, LF) > 0

\* if consumed > 0 && !self.chunk_header_available() { break }
HeaderBreak ==
    /\ kpc = "loop" /\ ~eof /\ err = "none"
    /\ ~check_end
    /\ n = 0
    /\ consumed > 0 /\ ~chunk_header_available(rbuf)
    /\ ReturnWith(err)
    /\ UNCHANGED <<nonChunkVars, spin, csrc, faulty, rbuf, check_end, eof, err, n,
                   footer, line, expected, wellFormed>>

\* self.begin_chunk() begins: read_chunk_line, read_until(b'\n', &mut line).
BeginChunk ==
    /\ kpc = "loop" /\ ~eof /\ err = "none"
    /\ ~check_end
    /\ n = 0
    /\ ~(consumed > 0 /\ ~chunk_header_available(rbuf))
    /\ kpc' = "line"
    /\ line' = <<>>
    /\ UNCHANGED <<nonChunkVars, spin, csrc, faulty, rbuf, check_end, eof, err, n,
                   buf_len, consumed, cbuf, footer, out, lastRet, expected,
                   wellFormed>>

\* A begin_chunk that never sets self.eof.
LineDoneNoEof(raw) ==
    \E cl \in {ChunkLine(raw)} : \E parsed \in {parse_hex_uint(cl.line)} :
        /\ line' = raw
        /\ kpc' = "loop"
        /\ UNCHANGED eof
        /\ IF cl.ok /\ parsed.ok
              THEN /\ n' = parsed.val
                   /\ UNCHANGED err
              ELSE /\ err' = "InvalidData"
                   /\ UNCHANGED n

\* begin_chunk after read_chunk_line returned raw: the size is parsed into
\* self.n, a failure goes to self.err, and self.eof = self.n == 0.
LineDone(raw) ==
    \E cl \in {ChunkLine(raw)} : \E parsed \in {parse_hex_uint(cl.line)} :
        /\ line' = raw
        /\ kpc' = "loop"
        /\ IF ~cl.ok
              THEN /\ err' = "InvalidData"
                   /\ UNCHANGED <<n, eof>>
           ELSE IF parsed.ok
              THEN /\ n' = parsed.val
                   /\ eof' = (parsed.val = 0)
                   /\ UNCHANGED err
           ELSE /\ err' = "InvalidData"
                /\ eof' = (n = 0)
                /\ UNCHANGED n

\* read_until with the bytes avail in the buffer: through the first LF,
\* or all of them and on to the next fill.
LineGot(avail) ==
    IF Position(avail, LF) > 0
        THEN /\ rbuf' = Drop(avail, Position(avail, LF))
             /\ LineDone(line \o Take(avail, Position(avail, LF)))
        ELSE /\ rbuf' = <<>>
             /\ line' = line \o avail
             /\ UNCHANGED <<kpc, n, eof, err>>

\* One pass of read_until: fill_buf (a read of the underlying reader when
\* the buffer is empty), then the scan for LF.
LineRead ==
    /\ kpc = "line"
    /\ \/ /\ rbuf # <<>>
          /\ LineGot(rbuf)
          /\ UNCHANGED csrc
       \/ /\ rbuf = <<>>
          /\ csrc # <<>>
          /\ \E k \in InnerReadLens(BufCap) :
                /\ csrc' = Drop(csrc, k)
                /\ LineGot(Take(csrc, k))
       \/ /\ rbuf = <<>>
          /\ csrc = <<>>
          /\ LineDone(line)
          /\ UNCHANGED <<csrc, rbuf>>
    /\ UNCHANGED <<nonChunkVars, spin, faulty, check_end, buf_len, consumed, cbuf,
                   footer, out, lastRet, expected, wellFormed>>

\* read_until fails on an error of the underlying reader: begin_chunk
\* stores it in self.err and returns.
LineFail ==
    /\ kpc = "line"
    /\ rbuf = <<>>
    /\ faulty
    /\ err' = "Other"
    /\ kpc' = "loop"
    /\ UNCHANGED <<nonChunkVars, spin, csrc, faulty, rbuf, check_end, eof, n,
                   buf_len, consumed, cbuf, footer, line, out, lastRet,
                   expected, wellFormed>>

\* if buf.len() == consumed { break }
BufFullBreak ==
    /\ kpc = "loop" /\ ~eof /\ err = "none"
    /\ ~check_end
    /\ n > 0
    /\ buf_len = consumed
    /\ ReturnWith(err)
    /\ UNCHANGED <<nonChunkVars, spin, csrc, faulty, rbuf, check_end, eof, err, n,
                   footer, line, expected, wellFormed>>

\* A slice that ignores what is left of the chunk.
EndIndexWholeBuf(cnt, left, len) == len

\* let end = cmp::min(consumed + self.n, buf.len());
EndIndex(cnt, left, len) == Min(cnt + left, len)

\* if self.n == 0 && self.err.is_none() { self.check_end = true }
ChunkDone(left, e) == left = 0 /\ e = "none"

\* After self.reader.read(&mut buf[consumed..end]) returned Ok(n0) with
\* the bytes got: consumed += n0; self.n -= n0; the end-of-chunk check.
DataGot(got) ==
    /\ cbuf' = cbuf \o got
    /\ consumed' = consumed + Len(got)
    /\ n' = n - Len(got)
    /\ check_end' = IF ChunkDone(n - Len(got), err) THEN TRUE ELSE check_end
    /\ UNCHANGED err

\* self.reader.read(&mut buf[consumed..end]): from the buffer when it
\* holds bytes; else one read of the underlying reader, into the buffer,
\* or straight into buf when the slice is at least as large as the buffer.
DataRead ==
    /\ kpc = "loop" /\ ~eof /\ err = "none"
    /\ ~check_end
    /\ n > 0
    /\ buf_len # consumed
    /\ LET want == EndIndex(consumed, n, buf_len) - consumed IN
       \/ /\ rbuf # <<>>
          /\ rbuf' = Drop(rbuf, Min(Len(rbuf), want))
          /\ DataGot(Take(rbuf, Min(Len(rbuf), want)))
          /\ UNCHANGED <<csrc, spin>>
       \/ /\ rbuf = <<>>
          /\ \E k \in InnerReadLens(IF want >= BufCap THEN want ELSE BufCap) :
                /\ csrc' = Drop(csrc, k)
                /\ rbuf' = SubSeq(csrc, Min(k, want) + 1, k)
                /\ DataGot(Take(csrc, Min(k, want)))
                /\ spin' = IF k = 0 THEN ~spin ELSE spin
    /\ UNCHANGED <<nonChunkVars, faulty, eof, kpc, buf_len, footer, line, out,
                   lastRet, expected, wellFormed>>

\* self.reader.read(..) fails: Err(err) => self.err = Some(err), n0 = 0.
DataFail ==
    /\ kpc = "loop" /\ ~eof /\ err = "none"
    /\ ~check_end
    /\ n > 0
    /\ buf_len # consumed
    /\ rbuf = <<>>
    /\ faulty
    /\ err' = "Other"
    /\ UNCHANGED <<nonChunkVars, spin, csrc, faulty, rbuf, check_end, eof, n, kpc,
                   buf_len, consumed, cbuf, footer, line, out, lastRet,
                   expected, wellFormed>>

ChunkNext ==
    \/ ReadCall \/ LoopExit
    \/ TrailerBreak \/ TrailerStart \/ FooterRead \/ FooterFail
    \/ HeaderBreak \/ BeginChunk \/ LineRead \/ LineFail
    \/ BufFullBreak \/ DataRead \/ DataFail

ChunkSpec == ChunkInit /\ [][ChunkNext]_vars

\* The caller keeps calling read and every call runs on.
FairChunkSpec == ChunkSpec /\ WF_vars(ChunkNext)

(***************************************************************************)
(* begin_chunk (chunked.rs:138-153) on one size line, the pending count    *)
(* kept as a word.                                                         *)
(***************************************************************************)
\* Largest number of repeated leading digits of a size line.
MaxPad == 16

\* The digits of the size lines: a digit '0' or 'f' repeated, then nothing
\* or one of '1', '9', 'a', 'A', 'F', 'g'.
HexDigitStrings ==
    {[i \in 1..k |-> p] \o t :
        k \in 0..MaxPad, p \in {48, 102},
        t \in {<<>>, <<49>>, <<57>>, <<97>>, <<65>>, <<70>>, <<103>>}}

\* The size lines: digits, white space or none, a chunk extension ";x" or
\* none, and the line ending.
HexLines ==
    [digits : HexDigitStrings, ws : {<<>>, <<32>>},
     ext : {<<>>, <<59, 120>>}, ending : {CR_LF, <<LF>>}]

\* The bytes of a size line.
RawLine(l) == l.digits \o l.ws \o l.ext \o l.ending

HexInit ==
    /\ SecParked
    /\ EndParked
    /\ RelParked
    /\ HeadParked
    /\ MsgParked
    /\ UriParked
    /\ TlsParked
    /\ ConnParked
    /\ ChanParked
    /\ ChunkParked
    /\ ReqParked
    /\ RedirParked
    /\ hexLine \in HexLines
    /\ hexRes = HexUnset

\* begin_chunk in a decoder with n = 0, after read_until returned raw: what
\* it leaves in self.err, self.n and self.eof.
BeginChunkOn(raw) ==
    LET cl == ChunkLine(raw)
        parsed == parse_hex_word(cl.line)
    IN  IF ~cl.ok
            THEN [err |-> "InvalidData", word |-> ZeroWord, eof |-> FALSE]
        ELSE IF parsed.ok
            THEN [err |-> "none", word |-> parsed.word,
                  eof |-> (parsed.word = ZeroWord)]
        ELSE [err |-> "InvalidData", word |-> ZeroWord, eof |-> TRUE]

\* self.begin_chunk() on the line.
HexBeginChunk ==
    /\ hexRes = HexUnset
    /\ hexRes' = BeginChunkOn(RawLine(hexLine))
    /\ UNCHANGED <<nonHexVars, hexLine>>

HexNext == HexBeginChunk

HexSpec == HexInit /\ [][HexNext]_vars

(***************************************************************************)
(* connect_with_timeout (stream.rs:205-233); connect_timeout of            *)
(* request.rs:840-868 is the same code.                                    *)
(***************************************************************************)
\* Largest number of addresses a host resolves to.
MaxAddrs == 3

\* What TcpStream::connect_timeout does on an address: it connects, or it
\* fails with the kind TimedOut or with another kind.
ConnectOutcomes == {"Ok", "TimedOut", "ConnectionRefused"}

ConnInit ==
    /\ SecParked
    /\ EndParked
    /\ RelParked
    /\ HeadParked
    /\ MsgParked
    /\ UriParked
    /\ TlsParked
    /\ ChanParked
    /\ ChunkParked
    /\ ReqParked
    /\ RedirParked
    /\ HexParked
    /\ resolves \in BOOLEAN
    /\ addrs \in UNION {[1..k -> ConnectOutcomes] : k \in 0..MaxAddrs}
    /\ idx = 0
    /\ attempts = <<>>
    /\ connRet = <<"none">>
    /\ npc = "resolve"

\* let addrs: Vec<_> = (host, port).to_socket_addrs()?.collect();
Resolve ==
    /\ npc = "resolve"
    /\ IF resolves
          THEN /\ npc' = "loop"
               /\ UNCHANGED connRet
          ELSE /\ npc' = "done"
               /\ connRet' = <<"Err", "Resolve", 0>>
    /\ UNCHANGED <<nonConnVars, resolves, addrs, idx, attempts>>

\* A kind that never ends the loop early.
ReturnsAtOnceNever(kind) == FALSE

\* io::ErrorKind::TimedOut => return Err(err)
ReturnsAtOnce(kind) == kind = "TimedOut"

\* if idx + 1 == count
IsLast(i, count) == i + 1 = count

\* One pass of the loop: TcpStream::connect_timeout(&addr, timeout) on the
\* address of index idx, and the match on its result.
Attempt ==
    /\ npc = "loop"
    /\ idx < Len(addrs)
    /\ attempts' = Append(attempts, idx + 1)
    /\ idx' = idx + 1
    /\ LET res == addrs[idx + 1] IN
          IF res = "Ok"
              THEN /\ connRet' = <<"Ok", idx + 1>>
                   /\ npc' = "done"
          ELSE IF ReturnsAtOnce(res) \/ IsLast(idx, Len(addrs))
              THEN /\ connRet' = <<"Err", res, idx + 1>>
                   /\ npc' = "done"
          ELSE UNCHANGED <<connRet, npc>>
    /\ UNCHANGED <<nonConnVars, resolves, addrs>>

\* The loop ends without a return: Err(AddrNotAvailable).
NoAddress ==
    /\ npc = "loop"
    /\ idx >= Len(addrs)
    /\ connRet' = <<"Err", "AddrNotAvailable", 0>>
    /\ npc' = "done"
    /\ UNCHANGED <<nonConnVars, resolves, addrs, idx, attempts>>

ConnNext == Resolve \/ Attempt \/ NoAddress

ConnSpec == ConnInit /\ [][ConnNext]_vars

(***************************************************************************)
(* Stream::try_to_https (stream.rs:50-74).                                 *)
(***************************************************************************)
\* Number of TCP connections told apart.
MaxTcp == 2

TlsInit ==
    /\ SecParked
    /\ EndParked
    /\ RelParked
    /\ HeadParked
    /\ MsgParked
    /\ UriParked
    /\ ChanParked
    /\ ChunkParked
    /\ ReqParked
    /\ RedirParked
    /\ HexParked
    /\ ConnParked
    /\ tlsIn \in [secure : BOOLEAN, tcp : 1..MaxTcp]
    /\ tlsScheme \in {"http", "https", "HTTPS", "ftp"}
    /\ tlsHost \in BOOLEAN
    /\ tlsCert \in {"None", "good", "bad"}
    /\ tlsShakes \in BOOLEAN
    /\ tlsRet = <<"none">>
    /\ handshakes = 0
    /\ certLoads = 0
    /\ tpc = "match"

\* A test that takes every scheme for https.
IsHttpsAny(scheme) == TRUE

\* A test that takes no scheme for https.
IsHttpsNever(scheme) == FALSE

\* uri.scheme() == "https"
IsHttps(scheme) == scheme = "https"

\* match stream: Stream::Https(_) => Ok(stream); Stream::Http with another
\* scheme => Ok(Stream::Http(http_stream)); else on to the upgrade.
TlsMatch ==
    /\ tpc = "match"
    /\ IF ~tlsIn.secure /\ IsHttps(tlsScheme)
          THEN /\ tpc' = "host"
               /\ UNCHANGED tlsRet
          ELSE /\ tpc' = "done"
               /\ tlsRet' = <<"Ok", tlsIn>>
    /\ UNCHANGED <<nonTlsVars, tlsIn, tlsScheme, tlsHost, tlsCert, tlsShakes,
                   handshakes, certLoads>>

\* let host = uri.host().ok_or(Error::Parse(ParseErr::UriErr))?;
TlsHost ==
    /\ tpc = "host"
    /\ IF tlsHost
          THEN /\ tpc' = "cert"
               /\ UNCHANGED tlsRet
          ELSE /\ tpc' = "done"
               /\ tlsRet' = <<"Err", "UriErr">>
    /\ UNCHANGED <<nonTlsVars, tlsIn, tlsScheme, tlsHost, tlsCert, tlsShakes,
                   handshakes, certLoads>>

\* match root_cert_file_pem { Some(p) => cnf.add_root_cert_file_pem(p)?,
\* None => &mut cnf }
TlsCert ==
    /\ tpc = "cert"
    /\ certLoads' = IF tlsCert = "None" THEN certLoads ELSE certLoads + 1
    /\ IF tlsCert = "bad"
          THEN /\ tpc' = "done"
               /\ tlsRet' = <<"Err", "CertFile">>
          ELSE /\ tpc' = "connect"
               /\ UNCHANGED tlsRet
    /\ UNCHANGED <<nonTlsVars, tlsIn, tlsScheme, tlsHost, tlsCert, tlsShakes,
                   handshakes>>

\* let stream = cnf.connect(host, http_stream)?; Ok(Stream::Https(stream))
TlsConnect ==
    /\ tpc = "connect"
    /\ handshakes' = handshakes + 1
    /\ tpc' = "done"
    /\ tlsRet' = IF tlsShakes
                    THEN <<"Ok", [secure |-> TRUE, tcp |-> tlsIn.tcp]>>
                    ELSE <<"Err", "Handshake">>
    /\ UNCHANGED <<nonTlsVars, tlsIn, tlsScheme, tlsHost, tlsCert, tlsShakes,
                   certLoads>>

TlsNext == TlsMatch \/ TlsHost \/ TlsCert \/ TlsConnect

TlsSpec == TlsInit /\ [][TlsNext]_vars

(***************************************************************************)
(* Parsing of a response head (response.rs), on bytes.  The heads of the   *)
(* model are ASCII, so str::from_utf8 succeeds on all of them.             *)
(***************************************************************************)
\* response.rs:5: CR_LF_2 = [13, 10, 13, 10].
CR_LF_2 == <<13, 10, 13, 10>>

\* The white space of str::trim that is ASCII.
IsWhite(b) == b \in {9, 10, 11, 12, 13, 32}

RECURSIVE TrimStart(_)
TrimStart(s) ==
    IF s = <<>> THEN s
    ELSE IF ~IsWhite(Head(s)) THEN s
    ELSE TrimStart(Tail(s))

RECURSIVE TrimEnd(_)
TrimEnd(s) ==
    IF s = <<>> THEN s
    ELSE IF ~IsWhite(s[Len(s)]) THEN s
    ELSE TrimEnd(Take(s, Len(s) - 1))

\* str::trim
Trim(s) == TrimEnd(TrimStart(s))

\* str::splitn(cnt, sep): at most cnt parts, the last one the remainder.
RECURSIVE SplitN(_, _, _)
SplitN(s, sep, cnt) ==
    IF cnt <= 1 \/ Position(s, sep) = 0 THEN <<s>>
    ELSE <<Take(s, Position(s, sep) - 1)>>
         \o SplitN(Drop(s, Position(s, sep)), sep, cnt - 1)

\* str::lines: the parts ended by LF, each without its LF and without a CR
\* before it; a last line that no LF ends is a line too.
RECURSIVE Lines(_)
Lines(s) ==
    IF s = <<>> THEN <<>>
    ELSE IF Position(s, LF) = 0 THEN <<s>>
    ELSE LET l == Take(s, Position(s, LF) - 1)
             stripped == IF l # <<>> /\ l[Len(l)] = 13
                             THEN Take(l, Len(l) - 1) ELSE l
         IN  <<stripped>> \o Lines(Drop(s, Position(s, LF)))

IsDigit(b) == b >= 48 /\ b <= 57

\* The digits of str::parse::<u16>, from the left, with accumulator acc:
\* any other byte, and a value above u16::MAX, are errors.
RECURSIVE ParseDigits(_, _)
ParseDigits(s, acc) ==
    IF s = <<>> THEN [ok |-> TRUE, val |-> acc]
    ELSE IF ~IsDigit(Head(s)) THEN [ok |-> FALSE, val |-> 0]
    ELSE IF acc * 10 + (Head(s) - 48) > 65535 THEN [ok |-> FALSE, val |-> 0]
    ELSE ParseDigits(Tail(s), acc * 10 + (Head(s) - 48))

\* str::parse::<u16>: an optional '+', then at least one digit.
ParseU16(s) ==
    LET digits == IF s # <<>> /\ Head(s) = 43 THEN Tail(s) ELSE s
    IN  IF digits = <<>> THEN [ok |-> FALSE, val |-> 0]
        ELSE ParseDigits(digits, 0)

\* Status::from_str: trim, splitn(3, ' '), then status_line[0], the parse
\* of status_line[1] and status_line[2]; an index past the parts panics.
StatusFromStr(status_line) ==
    LET parts == SplitN(Trim(status_line), 32, 3)
    IN  IF Len(parts) < 2 THEN [kind |-> "panic", code |-> 0]
        ELSE IF ~ParseU16(parts[2]).ok THEN [kind |-> "Err", code |-> 0]
        ELSE IF Len(parts) < 3 THEN [kind |-> "panic", code |-> 0]
        ELSE [kind |-> "Ok", code |-> ParseU16(parts[2]).val]

\* The closure of Headers::from_str on one line: split_at the first ':',
\* the key before it, the value from two bytes after it.
HeaderPair(elem) ==
    <<Take(elem, Position(elem, 58) - 1), Drop(elem, Position(elem, 58) + 1)>>

\* value[2..] needs two bytes from the colon on.
HeaderPanics(elem) == Len(elem) - Position(elem, 58) + 1 < 2

\* Headers::from_str: every line of the trimmed text must contain ':'.
HeadersFromStr(s) ==
    LET headers == Lines(Trim(s))
    IN  IF \E i \in 1..Len(headers) : Position(headers[i], 58) = 0
            THEN [kind |-> "Err", headers |-> <<>>]
        ELSE IF \E i \in 1..Len(headers) : HeaderPanics(headers[i])
            THEN [kind |-> "panic", headers |-> <<>>]
        ELSE [kind |-> "Ok",
              headers |-> [i \in 1..Len(headers) |-> HeaderPair(headers[i])]]

\* Response::parse_head: splitn(2, '\n'), the status from the first part,
\* the headers from the second; unwrap panics when there is no second part.
parse_head(head) ==
    LET parts == SplitN(head, LF, 2)
        status == StatusFromStr(parts[1])
    IN  IF status.kind # "Ok"
            THEN [kind |-> status.kind, code |-> 0, headers |-> <<>>]
        ELSE IF Len(parts) < 2
            THEN [kind |-> "panic", code |-> 0, headers |-> <<>>]
        ELSE [kind |-> HeadersFromStr(parts[2]).kind,
              code |-> IF HeadersFromStr(parts[2]).kind = "Ok"
                           THEN status.code ELSE 0,
              headers |-> HeadersFromStr(parts[2]).headers]

\* Headers::get: the value stored under the key v, <<"None">> when there
\* is none; the map keeps the last value collected for a key.
HeadersGet(headers, v) ==
    IF \E i \in 1..Len(headers) : headers[i][1] = v
        THEN <<"Some",
               headers[CHOOSE i \in 1..Len(headers) :
                          /\ headers[i][1] = v
                          /\ \A j \in (i + 1)..Len(headers) :
                                headers[j][1] # v][2]>>
        ELSE <<"None">>

\* "Content-Length"
ContentLengthName ==
    <<67, 111, 110, 116, 101, 110, 116, 45, 76, 101, 110, 103, 116, 104>>

\* "Location"
LocationName == <<76, 111, 99, 97, 116, 105, 111, 110>>

\* Response::content_len: the header parsed as a number, Ok(0) without it.
\* (The values of the model are below u16::MAX, where usize and u16 parse
\* alike.)
content_len(headers) ==
    IF HeadersGet(headers, ContentLengthName)[1] = "None"
        THEN [ok |-> TRUE, val |-> 0]
        ELSE ParseU16(HeadersGet(headers, ContentLengthName)[2])

\* StatusCode::is_redirect
is_redirect(code) == code >= 300 /\ code < 400

(***************************************************************************)
(* The responses a peer sends in the model.                                *)
(***************************************************************************)
\* "H 200 K\r\nContent-Length: 1\r\n\r\n": a 200 response that declares a body of one byte.
HeadLen1 ==
    <<72, 32, 50, 48, 48, 32, 75, 13, 10, 67, 111, 110, 116, 101, 110, 116,
      45, 76, 101, 110, 103, 116, 104, 58, 32, 49, 13, 10, 13, 10>>

\* "H 200 K\r\nContent-Length: 0\r\n\r\n": a 200 response that declares an
\* empty body.
HeadLen0 ==
    <<72, 32, 50, 48, 48, 32, 75, 13, 10, 67, 111, 110, 116, 101, 110, 116,
      45, 76, 101, 110, 103, 116, 104, 58, 32, 48, 13, 10, 13, 10>>

\* "H 200 K\r\ncontent-length: 1\r\n\r\n": the name of the header in lower
\* case.
HeadLowerLen1 ==
    <<72, 32, 50, 48, 48, 32, 75, 13, 10, 99, 111, 110, 116, 101, 110,
      116, 45, 108, 101, 110, 103, 116, 104, 58, 32, 49, 13, 10, 13,
      10>>

\* "H 200 K\nContent-Length: 1\n\n": HeadLen1 with bare LF line endings.
HeadBareLF ==
    <<72, 32, 50, 48, 48, 32, 75, 10, 67, 111, 110, 116, 101, 110,
      116, 45, 76, 101, 110, 103, 116, 104, 58, 32, 49, 10, 10>>

\* "H 200 K\r\n\r\n": a 200 response without headers.
HeadNoLen ==
    <<72, 32, 50, 48, 48, 32, 75, 13, 10, 13, 10>>

\* "A 2 C\r\n\r\n": a head shorter than the first read of copy_until.
HeadShort ==
    <<65, 32, 50, 32, 67, 13, 10, 13, 10>>

\* "H 301 M\r\nLocation: /b\r\n\r\n": a redirect with a Location.
HeadRedirect ==
    <<72, 32, 51, 48, 49, 32, 77, 13, 10, 76, 111, 99, 97, 116, 105, 111,
      110, 58, 32, 47, 98, 13, 10, 13, 10>>

\* "H 301 M\r\n\r\n": a redirect without a Location.
HeadRedirectNoLoc ==
    <<72, 32, 51, 48, 49, 32, 77, 13, 10, 13, 10>>

\* "": the peer closes without sending a byte.
HeadNone ==
    <<>>

\* "H 200 K": a status line, then the peer closes.
HeadNoLF ==
    <<72, 32, 50, 48, 48, 32, 75>>

\* "H 200\r\n\r\n": a status line without a reason.
HeadTwoParts ==
    <<72, 32, 50, 48, 48, 13, 10, 13, 10>>

\* "H 2x0 K\r\n\r\n": a status code that is not a number.
HeadBadCode ==
    <<72, 32, 50, 120, 48, 32, 75, 13, 10, 13, 10>>

\* "H 200 K\r\nbad\r\n\r\n": a header line without a colon.
HeadNoColon ==
    <<72, 32, 50, 48, 48, 32, 75, 13, 10, 98, 97, 100, 13, 10, 13, 10>>

\* "H 200 K\r\nX:\r\n\r\n": a header line that ends at its colon.
HeadNoValue ==
    <<72, 32, 50, 48, 48, 32, 75, 13, 10, 88, 58, 13, 10, 13, 10>>

\* "H 200 K\r\nX:ab\r\n\r\n": a header with no space after the colon.
HeadNoSpace ==
    <<72, 32, 50, 48, 48, 32, 75, 13, 10, 88, 58, 97, 98, 13, 10, 13, 10>>

Heads ==
    {HeadLen1, HeadLen0, HeadLowerLen1, HeadBareLF, HeadNoLen, HeadShort, HeadRedirect, HeadRedirectNoLoc,
     HeadNone, HeadNoLF, HeadTwoParts, HeadBadCode, HeadNoColon, HeadNoValue,
     HeadNoSpace}

\* Largest number of bytes a peer sends after the head.
MaxBody == 2

\* The i-th byte of a body: 'x', 'y', ...
Body(k) == [i \in 1..k |-> 119 + i]

(***************************************************************************)
(* Request::send (request.rs:790-812) and RequestBuilder::send             *)
(* (request.rs:402-415), one step per call that touches the stream.        *)
(***************************************************************************)
\* request.rs:38: let mut pre_buf = [0; 10];
PreBufLen == 10

\* Largest number of bytes one read of io::copy returns.
CopyCap == 2

ReqInit ==
    /\ SecParked
    /\ EndParked
    /\ RelParked
    /\ HeadParked
    /\ MsgParked
    /\ UriParked
    /\ TlsParked
    /\ ConnParked
    /\ HexParked
    /\ ChanParked
    /\ ChunkParked
    /\ RedirParked
    /\ method \in {"GET", "HEAD"}
    /\ sentHead \in Heads
    /\ sentBody \in {Body(k) : k \in 0..MaxBody}
    /\ stream = sentHead \o sentBody
    /\ sfaulty \in BOOLEAN
    /\ requests = 0
    /\ buf = <<>>
    /\ read = 0
    /\ spc = "connect"
    /\ result = "none"
    /\ response = [code |-> 0, headers |-> <<>>]
    /\ rwriter = <<>>

\* send returns Err(e): a `?` on a failed call.
Fail ==
    /\ spc' = "done"
    /\ result' = "Err"

\* Request::send up to self.inner.send: the connection, the socket
\* timeouts and, for https, the TLS session; each failure returns with `?`.
Connect ==
    /\ spc = "connect"
    /\ \/ /\ spc' = "write"
          /\ UNCHANGED result
       \/ /\ sfaulty
          /\ Fail
    /\ UNCHANGED <<nonReqVars, method, stream, sfaulty, requests, buf, read,
                   response, rwriter, sentHead, sentBody>>

\* self.write_msg(stream, &self.parse_msg())?
WriteMsg ==
    /\ spc = "write"
    /\ \/ /\ requests' = requests + 1
          /\ spc' = "pre"
          /\ UNCHANGED result
       \/ /\ sfaulty
          /\ Fail
          /\ UNCHANGED requests
    /\ UNCHANGED <<nonReqVars, method, stream, sfaulty, buf, read, response,
                   rwriter, sentHead, sentBody>>

\* The lengths one read of the stream can return into room bytes.
StreamReadLens(room) ==
    IF stream = <<>> THEN {0} ELSE 1..Min(room, Len(stream))

\* copy_until: let mut read = reader.read(&mut pre_buf)?;
\* buf.extend(&pre_buf[..read]);
PreRead ==
    /\ spc = "pre"
    /\ \/ /\ \E k \in StreamReadLens(PreBufLen) :
                /\ buf' = Take(stream, k)
                /\ read' = k
                /\ stream' = Drop(stream, k)
          /\ spc' = "bytes"
          /\ UNCHANGED result
       \/ /\ sfaulty
          /\ Fail
          /\ UNCHANGED <<buf, read, stream>>
    /\ UNCHANGED <<nonReqVars, method, sfaulty, requests, response, rwriter,
                   sentHead, sentBody>>

\* buf.ends_with(val)
EndsWith(b, val) ==
    Len(b) >= Len(val) /\ SubSeq(b, Len(b) - Len(val) + 1, Len(b)) = val

\* copy_until: one pass of `for byte in reader.bytes()`; the loop ends at
\* the end of the stream or when buf ends with CR_LF_2, and the buffer is
\* then written to head.
ByteRead ==
    /\ spc = "bytes"
    /\ \/ /\ stream # <<>>
          /\ buf' = Append(buf, Head(stream))
          /\ read' = read + 1
          /\ stream' = Tail(stream)
          /\ spc' = IF EndsWith(Append(buf, Head(stream)), CR_LF_2)
                        THEN "parse" ELSE "bytes"
          /\ UNCHANGED result
       \/ /\ stream = <<>>
          /\ spc' = "parse"
          /\ UNCHANGED <<buf, read, stream, result>>
       \/ /\ sfaulty
          /\ Fail
          /\ UNCHANGED <<buf, read, stream>>
    /\ UNCHANGED <<nonReqVars, method, sfaulty, requests, response, rwriter,
                   sentHead, sentBody>>

\* if self.method != Method::HEAD { io::copy(stream, writer)?; }
CopiesBody(m) == m # "HEAD"

\* read_head: Response::from_head(&head), then the test of the method.
FromHead ==
    /\ spc = "parse"
    /\ LET parsed == parse_head(buf) IN
          IF parsed.kind = "Ok"
              THEN /\ response' = [code |-> parsed.code,
                                   headers |-> parsed.headers]
                   /\ IF CopiesBody(method)
                          THEN /\ spc' = "copy"
                               /\ UNCHANGED result
                          ELSE /\ spc' = "done"
                               /\ result' = "Ok"
              ELSE /\ spc' = "done"
                   /\ result' = parsed.kind
                   /\ UNCHANGED response
    /\ UNCHANGED <<nonReqVars, method, stream, sfaulty, requests, buf, read,
                   rwriter, sentHead, sentBody>>

\* io::copy(stream, writer)?: one read and the write of what it returned;
\* a read of zero bytes ends the copy and send returns Ok(res).
CopyRead ==
    /\ spc = "copy"
    /\ \/ /\ stream # <<>>
          /\ \E k \in StreamReadLens(CopyCap) :
                /\ rwriter' = rwriter \o Take(stream, k)
                /\ stream' = Drop(stream, k)
          /\ UNCHANGED <<spc, result>>
       \/ /\ stream = <<>>
          /\ spc' = "done"
          /\ result' = "Ok"
          /\ UNCHANGED <<rwriter, stream>>
       \/ /\ sfaulty
          /\ Fail
          /\ UNCHANGED <<rwriter, stream>>
    /\ UNCHANGED <<nonReqVars, method, sfaulty, requests, buf, read, response,
                   sentHead, sentBody>>

ReqNext ==
    Connect \/ WriteMsg \/ PreRead \/ ByteRead \/ FromHead \/ CopyRead

ReqSpec == ReqInit /\ [][ReqNext]_vars

(***************************************************************************)
(* The redirect loop of a request, after section 4.8 of the specification  *)
(* (the sources of the repository hold no redirect policy).                *)
(***************************************************************************)
\* Number of URIs a chain of redirects runs over.
MaxHosts == 2

\* Largest counter of a Limit policy.
MaxLimit == 3

\* What a host answers: a redirect (3xx) or not, and the URI its Location
\* names, 0 when the response has no Location.
Answers ==
    {[redirect |-> FALSE, location |-> 0]}
        \cup {[redirect |-> TRUE, location |-> l] : l \in 0..MaxHosts}

RedirInit ==
    /\ SecParked
    /\ EndParked
    /\ RelParked
    /\ HeadParked
    /\ MsgParked
    /\ UriParked
    /\ TlsParked
    /\ ConnParked
    /\ HexParked
    /\ ChanParked
    /\ ChunkParked
    /\ ReqParked
    /\ chain \in [1..MaxHosts -> Answers]
    /\ current = 1
    /\ limit \in 0..MaxLimit
    /\ limit0 = limit
    /\ hops = 0
    /\ issued = 0
    /\ follows = <<>>
    /\ dpc = "request"
    /\ final = "none"

\* A policy that allows every redirect.
followAlways(k) == TRUE

\* Limit(n).follow: "returns true and decrements n on each follow call
\* while n > 0".
follow(k) == k > 0

\* The counter after a call of follow.
followed(k) == IF k > 0 THEN k - 1 ELSE k

\* A request whose response ends the chain: not a 3xx, or a 3xx without
\* Location; the response is returned unmodified.
Terminal ==
    /\ dpc = "request"
    /\ ~chain[current].redirect \/ chain[current].location = 0
    /\ issued' = issued + 1
    /\ final' = chain[current]
    /\ dpc' = "done"
    /\ UNCHANGED <<nonRedirVars, chain, current, limit, limit0, hops, follows>>

\* A request answered by a 3xx with a Location that the policy denies: the
\* response is returned unmodified.
Denied ==
    /\ dpc = "request"
    /\ chain[current].redirect /\ chain[current].location # 0
    /\ ~follow(limit)
    /\ follows' = Append(follows, follow(limit))
    /\ limit' = followed(limit)
    /\ issued' = issued + 1
    /\ final' = chain[current]
    /\ dpc' = "done"
    /\ UNCHANGED <<nonRedirVars, chain, current, limit0, hops>>

\* A request answered by a 3xx with a Location that the policy allows: a
\* new request goes to the location, with the decremented policy.
Redirect ==
    /\ dpc = "request"
    /\ chain[current].redirect /\ chain[current].location # 0
    /\ follow(limit)
    /\ follows' = Append(follows, follow(limit))
    /\ limit' = followed(limit)
    /\ issued' = issued + 1
    /\ hops' = hops + 1
    /\ current' = chain[current].location
    /\ UNCHANGED <<nonRedirVars, chain, limit0, dpc, final>>

RedirNext == Terminal \/ Denied \/ Redirect

RedirSpec == RedirInit /\ [][RedirNext]_vars

(***************************************************************************)
(* Uri::try_from and Authority::try_from (uri.rs:352-400, 497-534), on      *)
(* bytes; ranges are RangeC, zero-based and half-open.                     *)
(***************************************************************************)
MaxScheme == 2
MaxTail == 3

\* &s[range] (uri.rs:48-55).
Slice(s, range) == SubSeq(s, range.start + 1, range.end)

\* str::find: the offset of the first occurrence of separator in t, or -1
\* for Option::None.
Find(t, separator) ==
    LET hits == {i \in 0..(Len(t) - Len(separator)) :
                    SubSeq(t, i + 1, i + Len(separator)) = separator}
    IN  IF hits = {} THEN -1
        ELSE CHOOSE i \in hits : \A j \in hits : i <= j

\* str::contains.
Contains(t, separator) == Find(t, separator) # -1

\* Option::filter(|r| r.start != r.end) (uri.rs:565-566).
NonEmpty(r) == IF r.start # r.end THEN r ELSE None

\* get_chunks (uri.rs:554-577).
get_chunks(s, range, separator) ==
    IF ~range.some THEN [before |-> None, after |-> None]
    ELSE LET i == Find(Slice(s, range), separator)
             mid == range.start + i + Len(separator)
         IN  IF i # -1
             THEN [before |-> NonEmpty(Some(range.start, mid - 1)),
                   after |-> NonEmpty(Some(mid, range.end))]
             ELSE IF Slice(s, range) # <<>>
             THEN [before |-> range, after |-> None]
             ELSE [before |-> None, after |-> None]

\* Authority::try_from (uri.rs:500-533): [ok, auth].
Authority_try_from(s) ==
    LET whole == Some(0, Len(s))
        hasAt == Contains(s, <<64>>)
        byAt == get_chunks(s, whole, <<64>>)
        cred == get_chunks(s, byAt.before, <<58>>)
        uri_part == IF hasAt THEN byAt.after ELSE whole
        split_by == IF Contains(s, <<91>>) /\ Contains(s, <<93>>)
                    THEN <<93, 58>> ELSE <<58>>
        hp == get_chunks(s, uri_part, split_by)
    IN  IF ~hp.before.some THEN [ok |-> FALSE, auth |-> NoAuthority]
        ELSE IF hp.after.some /\ ~ParseU16(Slice(s, hp.after)).ok
        THEN [ok |-> FALSE, auth |-> NoAuthority]
        ELSE [ok |-> TRUE,
              auth |-> [some |-> TRUE,
                        inner |-> s,
                        username |-> IF hasAt THEN cred.before ELSE None,
                        password |-> IF hasAt THEN cred.after ELSE None,
                        host |-> hp.before,
                        port |-> hp.after]]

\* The scheme of try_from (uri.rs:356): what get_chunks finds before the
\* first ':'.
SchemeOf(s) == get_chunks(s, Some(0, Len(s)), <<58>>).before

\* The start of the path (uri.rs:372-376): the part after the authority is extended by the '/'
\* in front of it, when there is one.
PathStart(s, u) ==
    IF u.some /\ s[u.start] = 47 THEN Some(u.start - 1, u.end) ELSE u

\* Uri::try_from (uri.rs:355-399).
Uri_try_from(s) ==
    LET scheme == SchemeOf(s)
        u1 == get_chunks(s, Some(0, Len(s)), <<58>>).after
        hasSlashes == u1.some /\ Contains(Slice(s, u1), <<47, 47>>)
        c2 == get_chunks(s, Some(u1.start + 2, u1.end), <<47>>)
        a == IF hasSlashes /\ c2.before.some
             THEN Authority_try_from(Slice(s, c2.before))
             ELSE [ok |-> TRUE, auth |-> NoAuthority]
        u2 == IF hasSlashes THEN c2.after ELSE u1
        u3 == PathStart(s, u2)
        hasQ == u3.some /\ Contains(Slice(s, u3), <<63>>)
        hasF == u3.some /\ Contains(Slice(s, u3), <<35>>)
        byQ == get_chunks(s, u3, <<63>>)
        byF == get_chunks(s, u3, <<35>>)
        byQF == get_chunks(s, byQ.after, <<35>>)
    IN  IF ~scheme.some \/ ~a.ok
        THEN [UriUnset EXCEPT !.ret = "UriErr"]
        ELSE [ret |-> "Ok",
              scheme |-> scheme,
              authority |-> a.auth,
              path |-> IF hasQ THEN byQ.before
                       ELSE IF hasF THEN byF.before ELSE u3,
              query |-> IF hasQ /\ hasF THEN byQF.before
                        ELSE IF hasQ THEN byQ.after ELSE None,
              fragment |-> IF hasQ /\ hasF THEN byQF.after
                           ELSE IF hasF THEN byF.after ELSE None]

\* Uri::resource (uri.rs:240-245) of the Uri u over the string s.
resource(u, s) ==
    IF u.path.some THEN SubSeq(s, u.path.start + 1, Len(s)) ELSE <<47>>

\* Mutant of Authority_fmt: the authority as it was given.
Authority_fmt_plain(a) == a.inner

\* Display for Authority (uri.rs:537-548): replace_range(password,
\* "*".repeat(password.len())) on a copy of inner.
Authority_fmt(a) ==
    IF a.password.some
    THEN [i \in 1..Len(a.inner) |->
             IF i > a.password.start /\ i <= a.password.end THEN 42
             ELSE a.inner[i]]
    ELSE a.inner

\* Display for Uri (uri.rs:338-349): the formatted authority replaces
\* the bytes start..start + auth.len() of a copy of inner.
Uri_fmt(u, s) ==
    IF u.authority.some
    THEN LET auth == Authority_fmt(u.authority)
             start == u.scheme.end + 3
         IN  SubSeq(s, 1, start) \o auth
                 \o SubSeq(s, start + Len(auth) + 1, Len(s))
    ELSE s

\* The strings of at most k bytes over the bytes of alphabet.
StringsOver(alphabet, k) == UNION {[1..m -> alphabet] : m \in 0..k}

\* What follows the scheme: nothing, ':', and ':' with "//" and an
\* authority (a, a:1, a:a, a@a, :1, [a]:1, a:a@a, a:a1@a:1, :a@a, a:@a,
\* a:a:a@a).
AfterScheme ==
    {<<>>, <<58>>, <<58, 47, 47>>, <<58, 47, 47, 97>>,
     <<58, 47, 47, 97, 58, 49>>, <<58, 47, 47, 97, 58, 97>>,
     <<58, 47, 47, 97, 64, 97>>, <<58, 47, 47, 58, 49>>,
     <<58, 47, 47, 91, 97, 93, 58, 49>>,
     <<58, 47, 47, 97, 58, 97, 64, 97>>,
     <<58, 47, 47, 97, 58, 97, 49, 64, 97, 58, 49>>,
     <<58, 47, 47, 58, 97, 64, 97>>,
     <<58, 47, 47, 97, 58, 64, 97>>,
     <<58, 47, 47, 97, 58, 97, 58, 97, 64, 97>>}

\* References with "//" inside the path and inside the query: "a:a//a",
\* "a:aaa//a" and "a:a?a=a://a".
LaterSlashes ==
    {<<97, 58, 97, 47, 47, 97>>,
     <<97, 58, 97, 97, 97, 47, 47, 97>>,
     <<97, 58, 97, 63, 97, 61, 97, 58, 47, 47, 97>>}

\* The strings try_from is run on: a scheme of 0..MaxScheme letters, what
\* follows it, and a tail of at most MaxTail bytes of "/a ?#"; and the
\* references of LaterSlashes.
UriInputs ==
    {sch \o mid \o tail :
        sch \in StringsOver({97}, MaxScheme),
        mid \in AfterScheme,
        tail \in StringsOver({47, 97, 32, 63, 35}, MaxTail)}
    \cup LaterSlashes

UriInit ==
    /\ SecParked
    /\ EndParked
    /\ RelParked
    /\ HeadParked
    /\ MsgParked
    /\ ChanParked
    /\ ChunkParked
    /\ ReqParked
    /\ RedirParked
    /\ HexParked
    /\ ConnParked
    /\ TlsParked
    /\ uriStr \in UriInputs
    /\ uriRes = UriUnset
    /\ uriFmt = <<>>

\* The call Uri::try_from(uriStr).
TryFrom ==
    /\ uriRes = UriUnset
    /\ uriRes' = Uri_try_from(uriStr)
    /\ UNCHANGED <<nonUriVars, uriStr, uriFmt>>

\* The call to_string() on the parsed Uri.
Display ==
    /\ uriRes.ret = "Ok"
    /\ uriFmt = <<>>
    /\ uriFmt' = Uri_fmt(uriRes, uriStr)
    /\ UNCHANGED <<nonUriVars, uriStr, uriRes>>

UriNext == TryFrom \/ Display

UriSpec == UriInit /\ [][UriNext]_vars

(***************************************************************************)
(* RequestBuilder: new, method, header, body and parse_msg                 *)
(* (request.rs:200-208, 231-237, 322-329, 354-357, 480-502).               *)
(***************************************************************************)
MaxCalls == 3
MaxReqBody == 2

\* "Host", and a header name of the caller, "X".
HostName == <<72, 111, 115, 116>>

HeaderNames == {HostName, ContentLengthName, <<88>>}

\* Header values: "a", "1", "2".
HeaderValues == {<<97>>, <<49>>, <<50>>}

\* Display of Method (request.rs): the name in upper case.
MethodBytes(m) ==
    CASE m = "GET" -> <<71, 69, 84>>
      [] m = "HEAD" -> <<72, 69, 65, 68>>
      [] m = "POST" -> <<80, 79, 83, 84>>

\* "HTTP/1.1"
Http11 == <<72, 84, 84, 80, 47, 49, 46, 49>>

\* RequestBuilder::new: the default headers of the URI (here Host: a),
\* GET, no body.
MsgInit ==
    /\ SecParked
    /\ EndParked
    /\ RelParked
    /\ HeadParked
    /\ UriParked
    /\ TlsParked
    /\ ConnParked
    /\ HexParked
    /\ ChanParked
    /\ ChunkParked
    /\ RedirParked
    /\ ReqParked
    /\ bmethod = "GET"
    /\ bheaders = [name \in {HostName} |-> <<97>>]
    /\ bbody = NoBody
    /\ calls = 0
    /\ lastCall = "new"
    /\ request_msg = <<>>

\* Headers::insert, as HashMap::insert: the value replaces the one the
\* name had.
Insert(h, key, val) ==
    [name \in DOMAIN h \cup {key} |-> IF name = key THEN val ELSE h[name]]

\* method(m): self.method = Method::from(m).
SetMethod ==
    /\ request_msg = <<>>
    /\ calls < MaxCalls
    /\ \E m \in {"GET", "HEAD", "POST"} : bmethod' = m
    /\ calls' = calls + 1
    /\ lastCall' = "method"
    /\ UNCHANGED <<nonMsgVars, bheaders, bbody, request_msg>>

\* header(key, val): self.headers.insert(key, val).
SetHeader ==
    /\ request_msg = <<>>
    /\ calls < MaxCalls
    /\ \E key \in HeaderNames, val \in HeaderValues :
          bheaders' = Insert(bheaders, key, val)
    /\ calls' = calls + 1
    /\ lastCall' = "header"
    /\ UNCHANGED <<nonMsgVars, bmethod, bbody, request_msg>>

\* body(slice): self.body = Some(slice); the headers stay as they are.
SetBody ==
    /\ request_msg = <<>>
    /\ calls < MaxCalls
    /\ \E k \in 0..MaxReqBody :
          bbody' = [some |-> TRUE, bytes |-> Body(k)]
    /\ calls' = calls + 1
    /\ lastCall' = "body"
    /\ UNCHANGED <<nonMsgVars, bmethod, bheaders, request_msg>>

\* The orders in which the map can be iterated: the sequences that hold
\* each name of the map once.
IterOrders(h) ==
    {order \in [1..Cardinality(DOMAIN h) -> DOMAIN h] :
        \A i, j \in 1..Cardinality(DOMAIN h) : order[i] = order[j] => i = j}

\* format!("{}: {}{}", k, v, CR_LF) for the names of order, collected.
RECURSIVE HeaderLines(_, _)
HeaderLines(h, order) ==
    IF order = <<>> THEN <<>>
    ELSE Head(order) \o <<58, 32>> \o h[Head(order)] \o CR_LF
             \o HeaderLines(h, Tail(order))

\* parse_msg (request.rs:480-502) with the headers iterated in order; the
\* resource of the URI is "/".
parse_msg(m, h, order, b) ==
    MethodBytes(m) \o <<32, 47, 32>> \o Http11 \o CR_LF
        \o HeaderLines(h, order) \o CR_LF
        \o (IF b.some THEN b.bytes ELSE <<>>)

\* The call parse_msg().
ParseMsg ==
    /\ request_msg = <<>>
    /\ \E order \in IterOrders(bheaders) :
          request_msg' = parse_msg(bmethod, bheaders, order, bbody)
    /\ UNCHANGED <<nonMsgVars, bmethod, bheaders, bbody, calls, lastCall>>

MsgNext == SetMethod \/ SetHeader \/ SetBody \/ ParseMsg

MsgSpec == MsgInit /\ [][MsgNext]_vars

(***************************************************************************)
(* read_head and ThreadSend::send_head (stream.rs:272-292, 136-139).       *)
(***************************************************************************)
MaxHead == 5
HeadCap == 3

\* The bytes of a source: CR, LF and 'a'.
HeadBytes == {13, 10, 97}

HeadSources == UNION {[1..k -> HeadBytes] : k \in 0..MaxHead}

HeadInit ==
    /\ SecParked
    /\ EndParked
    /\ RelParked
    /\ MsgParked
    /\ UriParked
    /\ TlsParked
    /\ ConnParked
    /\ HexParked
    /\ ChanParked
    /\ ChunkParked
    /\ ReqParked
    /\ RedirParked
    /\ horig \in HeadSources
    /\ hreader = horig
    /\ hbuffer = <<>>
    /\ hfaulty \in BOOLEAN
    /\ hbuf = <<>>
    /\ hlen = 0
    /\ hfailed = FALSE
    /\ hpc = "idle"
    /\ hrcv = TRUE
    /\ hsent = <<>>

\* let mut buf = Vec::with_capacity(BUF_SIZE); the loop begins with the
\* first read_until.
HeadCall ==
    /\ hpc = "idle"
    /\ hpc' = "line"
    /\ hbuf' = <<>>
    /\ hlen' = 0
    /\ UNCHANGED <<nonHeadVars, horig, hreader, hbuffer, hfaulty, hfailed, hrcv,
                   hsent>>

\* A line that ends with CR LF, whatever its length.
EndsHeadAnyLen(len, b) == Len(b) >= 2 /\ SubSeq(b, Len(b) - 1, Len(b)) = CR_LF

\* len == 2 && &buf[full_len - 2..] == CR_LF
EndsHead(len, b) == len = 2 /\ SubSeq(b, Len(b) - 1, Len(b)) = CR_LF

\* The match on what read_until returned: Ok(0) and the blank line break
\* the loop, any other line goes on to the next read_until.
LineReturned(len, b) ==
    /\ hbuf' = b
    /\ hlen' = 0
    /\ hpc' = IF len = 0 \/ EndsHead(len, b) THEN "send" ELSE "line"

\* read_until with the bytes avail of fill_buf: through the first LF and
\* return, or all of them and on to the next fill_buf.
UntilGot(avail) ==
    IF Position(avail, LF) > 0
        THEN /\ hbuffer' = Drop(avail, Position(avail, LF))
             /\ LineReturned(hlen + Position(avail, LF),
                             hbuf \o Take(avail, Position(avail, LF)))
        ELSE /\ hbuffer' = <<>>
             /\ hbuf' = hbuf \o avail
             /\ hlen' = hlen + Len(avail)
             /\ UNCHANGED hpc

\* One pass of read_until(LF, &mut buf): fill_buf (a read of the
\* underlying reader when the buffer is empty, Ok(read) at the end of the
\* source), then the scan for LF.
ReadUntil ==
    /\ hpc = "line"
    /\ \/ /\ hbuffer # <<>>
          /\ UntilGot(hbuffer)
          /\ UNCHANGED hreader
       \/ /\ hbuffer = <<>>
          /\ hreader # <<>>
          /\ \E k \in 1..Min(HeadCap, Len(hreader)) :
                /\ hreader' = Drop(hreader, k)
                /\ UntilGot(Take(hreader, k))
       \/ /\ hbuffer = <<>>
          /\ hreader = <<>>
          /\ LineReturned(hlen, hbuf)
          /\ UNCHANGED <<hreader, hbuffer>>
    /\ UNCHANGED <<nonHeadVars, horig, hfaulty, hfailed, hrcv, hsent>>

\* read_until returns Err(_): break, with what it had appended kept.
ReadUntilFail ==
    /\ hpc = "line"
    /\ hbuffer = <<>>
    /\ hfaulty
    /\ hfailed' = TRUE
    /\ hpc' = "send"
    /\ UNCHANGED <<nonHeadVars, horig, hreader, hbuffer, hfaulty, hbuf, hlen,
                   hrcv, hsent>>

\* sender.send(buf).unwrap_or(()): an error of send (no Receiver) is
\* dropped.
SendHead ==
    /\ hpc = "send"
    /\ hsent' = IF hrcv THEN Append(hsent, hbuf) ELSE hsent
    /\ hpc' = "done"
    /\ UNCHANGED <<nonHeadVars, horig, hreader, hbuffer, hfaulty, hbuf, hlen,
                   hfailed, hrcv>>

\* The other thread drops the Receiver.
DropReceiver ==
    /\ hrcv
    /\ hpc # "done"
    /\ hrcv' = FALSE
    /\ UNCHANGED <<nonHeadVars, horig, hreader, hbuffer, hfaulty, hbuf, hlen,
                   hfailed, hpc, hsent>>

HeadNext == HeadCall \/ ReadUntil \/ ReadUntilFail \/ SendHead \/ DropReceiver

HeadSpec == HeadInit /\ [][HeadNext]_vars

(***************************************************************************)
(* Uri::from_relative, add_part_start, add_part_end, add_part              *)
(* (uri.rs:277-334).                                                       *)
(***************************************************************************)
\* str::rfind: the offset of the last occurrence of separator in t, or -1
\* for Option::None.
RFind(t, separator) ==
    LET hits == {i \in 0..(Len(t) - Len(separator)) :
                    SubSeq(t, i + 1, i + Len(separator)) = separator}
    IN  IF hits = {} THEN -1
        ELSE CHOOSE i \in hits : \A j \in hits : i >= j

\* add_part (uri.rs:314-333): the base up to base_idx (all of it when
\* None), the separator, the part after its first separator (all of it
\* when it has none).
add_part(base, part, separator, base_idx) ==
    LET part_idx == Find(part, separator)
    IN  (IF base_idx # -1 THEN Take(base, base_idx) ELSE base)
        \o separator
        \o (IF part_idx # -1 THEN Drop(part, part_idx + 1) ELSE part)

\* add_part_start (uri.rs:299-302).
add_part_start(base, part, separator) ==
    add_part(base, part, separator, Find(base, separator))

\* add_part_end (uri.rs:307-310).
add_part_end(base, part, separator) ==
    add_part(base, part, separator, RFind(base, separator))

\* str::trim_end_matches("/").
RECURSIVE trim_end_matches(_, _)
trim_end_matches(t, b) ==
    IF t # <<>> /\ t[Len(t)] = b THEN trim_end_matches(Take(t, Len(t) - 1), b)
    ELSE t

\* Uri::path (uri.rs:198-200), with unwrap_or("/").
path_or_slash(u, s) == IF u.path.some THEN Slice(s, u.path) ELSE <<47>>

\* The string from_relative writes into relative_uri (uri.rs:278-291), for
\* the Uri u over the string s and the relative reference r.
from_relative(u, s, r) ==
    LET first == IF r = <<>> THEN 0 ELSE r[1]
        res == CASE first = 35 -> add_part_start(resource(u, s), r, <<35>>)
                 [] first = 63 -> add_part_start(path_or_slash(u, s), r, <<63>>)
                 [] first = 47 -> add_part_start(resource(u, s), r, <<47>>)
                 [] OTHER -> add_part_end(resource(u, s), r, <<47>>)
    IN  IF u.path.some THEN Take(s, u.path.start) \o res
        ELSE trim_end_matches(s, 47) \o res

\* Base URIs: "s://h/p/q", "s://h/p/q?k", "s://h/p?k/v", "s://h/p#f/g",
\* "s://h/p/", "s://h/", "s://h", "s:p", "s://h/p/q?k#f", "s://h/p".
RelBases ==
    {<<115, 58, 47, 47, 104, 47, 112, 47, 113>>,
     <<115, 58, 47, 47, 104, 47, 112, 47, 113, 63, 107>>,
     <<115, 58, 47, 47, 104, 47, 112, 63, 107, 47, 118>>,
     <<115, 58, 47, 47, 104, 47, 112, 35, 102, 47, 103>>,
     <<115, 58, 47, 47, 104, 47, 112, 47>>,
     <<115, 58, 47, 47, 104, 47>>,
     <<115, 58, 47, 47, 104>>,
     <<115, 58, 112>>,
     <<115, 58, 47, 47, 104, 47, 112, 47, 113, 63, 107, 35, 102>>,
     <<115, 58, 47, 47, 104, 47, 112>>}

\* Relative references: "x", "x/y", "x/y/z", "./x", "./x/y", "x?k", "x#f",
\* "", "/x", "?k", "#f", "x/".
RelParts ==
    {<<120>>, <<120, 47, 121>>, <<120, 47, 121, 47, 122>>,
     <<46, 47, 120>>, <<46, 47, 120, 47, 121>>,
     <<120, 63, 107>>, <<120, 35, 102>>, <<>>,
     <<47, 120>>, <<63, 107>>, <<35, 102>>, <<120, 47>>}

RelInit ==
    /\ SecParked
    /\ EndParked
    /\ HeadParked
    /\ MsgParked
    /\ ChanParked
    /\ ChunkParked
    /\ ReqParked
    /\ RedirParked
    /\ HexParked
    /\ ConnParked
    /\ TlsParked
    /\ uriStr \in RelBases
    /\ uriRes = UriUnset
    /\ uriFmt = <<>>
    /\ relStr = <<>>
    /\ relOut = RelUnset

\* The call base.from_relative(&mut r): the string is written into r and
\* parsed again.
FromRelative ==
    /\ uriRes.ret = "Ok"
    /\ relOut = RelUnset
    /\ \E r \in RelParts :
          /\ relStr' = r
          /\ relOut' = [ret |-> Uri_try_from(from_relative(uriRes, uriStr, r)).ret,
                        str |-> from_relative(uriRes, uriStr, r)]
    /\ UNCHANGED nonRelVars

RelNext == TryFrom \/ FromRelative

RelSpec == RelInit /\ [][RelNext]_vars

(***************************************************************************)
(* The data branch of ChunkReader::read with self.n at its full width      *)
(* (chunked.rs:59-72): usize is 64 bits, a word of 16 hex digits.          *)
(***************************************************************************)
MaxEndBuf == 3

\* The byte d, k times.
Rep(d, k) == [i \in 1..k |-> d]

\* Size lines: "1", "2", "3", "a", "10", "ff", and with 15 and 16 digits
\* "fffffffffffffff", "ffffffffffffffff", "fffffffffffffffe",
\* "8000000000000000", "7fffffffffffffff", "0000000000000001",
\* "fffffffffffffffd".
EndLines ==
    {<<49>>, <<50>>, <<51>>, <<97>>, <<49, 48>>, <<102, 102>>,
     Rep(102, 15), Rep(102, 16), Append(Rep(102, 15), 101),
     <<56>> \o Rep(48, 15), <<55>> \o Rep(102, 15),
     Append(Rep(48, 15), 49), Append(Rep(102, 15), 100)}

\* w + c on 64 bits, from hex digit i down with the carry c (c < 16):
\* the wrapped sum and whether a carry left the word.
RECURSIVE AddFrom(_, _, _)
AddFrom(w, i, c) ==
    IF i = 0 THEN [word |-> w, overflow |-> c > 0]
    ELSE AddFrom([w EXCEPT ![i] = (w[i] + c) % 16], i - 1, (w[i] + c) \div 16)

\* usize addition.
wrapping_add(w, c) == AddFrom(w, WordNibbles, c)

\* w - c on 64 bits, from hex digit i down with the borrow c (c < 16).
RECURSIVE SubFrom(_, _, _)
SubFrom(w, i, c) ==
    IF i = 0 THEN [word |-> w, overflow |-> c > 0]
    ELSE SubFrom([w EXCEPT ![i] = (w[i] + 16 - c) % 16], i - 1,
                 IF w[i] < c THEN 1 ELSE 0)

\* usize subtraction.
wrapping_sub(w, c) == SubFrom(w, WordNibbles, c)

\* cmp::min(w, len) for len < 16.
MinWord(w, len) ==
    IF (\A i \in 1..(WordNibbles - 1) : w[i] = 0) /\ w[WordNibbles] < len
        THEN w[WordNibbles]
        ELSE len

\* The state in which the data branch is entered: a size line was parsed
\* into self.n, self.n > 0, and consumed < buf.len().
EndInit ==
    /\ SecParked
    /\ RelParked
    /\ HeadParked
    /\ MsgParked
    /\ UriParked
    /\ TlsParked
    /\ ConnParked
    /\ HexParked
    /\ ChanParked
    /\ ChunkParked
    /\ ReqParked
    /\ RedirParked
    /\ eline \in {l \in EndLines : parse_hex_word(l).ok
                                   /\ parse_hex_word(l).word # ZeroWord}
    /\ ebuild \in {"debug", "release"}
    /\ ebuf_len \in 1..MaxEndBuf
    /\ econsumed \in 0..(ebuf_len - 1)
    /\ en = parse_hex_word(eline).word
    /\ eend = 0
    /\ epc = "start"
    /\ eret = "none"

\* let end = cmp::min(consumed + self.n, buf.len()); &mut buf[consumed..end]:
\* the addition panics on overflow in a debug build and wraps in a release
\* build, and the slice panics when end < consumed.
EndOf ==
    /\ epc = "start"
    /\ \E sum \in {wrapping_add(en, econsumed)} :
          IF sum.overflow /\ ebuild = "debug"
              THEN /\ eret' = "add overflow"
                   /\ epc' = "done"
                   /\ UNCHANGED eend
          ELSE IF MinWord(sum.word, ebuf_len) < econsumed
              THEN /\ eret' = "slice index"
                   /\ epc' = "done"
                   /\ eend' = MinWord(sum.word, ebuf_len)
          ELSE /\ eend' = MinWord(sum.word, ebuf_len)
               /\ epc' = "read"
               /\ UNCHANGED eret
    /\ UNCHANGED <<nonEndVars, eline, ebuild, ebuf_len, econsumed, en>>

\* Ok(v) => n0 = v, with v at most the length of the slice; consumed += n0;
\* self.n -= n0.
ReadN0 ==
    /\ epc = "read"
    /\ \E n0 \in 0..(eend - econsumed) :
       \E left \in {wrapping_sub(en, n0)} :
          /\ econsumed' = econsumed + n0
          /\ en' = left.word
          /\ eret' = IF left.overflow /\ ebuild = "debug"
                        THEN "subtract overflow" ELSE "ok"
    /\ epc' = "done"
    /\ UNCHANGED <<nonEndVars, eline, ebuild, ebuf_len, eend>>

EndNext == EndOf \/ ReadN0

EndSpec == EndInit /\ [][EndNext]_vars

(***************************************************************************)
(* Request::send (request.rs:790-812): connect, socket timeouts, the TLS   *)
(* session for https, and the write of the request message by              *)
(* RequestBuilder::send (request.rs:402-407).                              *)
(***************************************************************************)
\* The request message: "GET".
RequestMsg == <<71, 69, 84>>

SecInit ==
    /\ EndParked
    /\ RelParked
    /\ HeadParked
    /\ MsgParked
    /\ UriParked
    /\ TlsParked
    /\ ConnParked
    /\ HexParked
    /\ ChanParked
    /\ ChunkParked
    /\ ReqParked
    /\ RedirParked
    /\ qscheme \in {"http", "https", "HTTPS"}
    /\ qcert \in {"None", "good", "bad"}
    /\ qshakes \in BOOLEAN
    /\ qfaulty \in BOOLEAN
    /\ qpc = "connect"
    /\ qret = "none"
    /\ qhands = 0
    /\ plainOut = <<>>
    /\ tlsOut = <<>>

\* A `?` on the failed step at: send returns Err.
SecFail(at) ==
    /\ qpc' = "done"
    /\ qret' = at

\* connect_timeout(host, port, timeout)? or TcpStream::connect((host, port))?
SecConnect ==
    /\ qpc = "connect"
    /\ \/ qpc' = "timeouts" /\ UNCHANGED qret
       \/ qfaulty /\ SecFail("connect")
    /\ UNCHANGED <<nonSecVars, qscheme, qcert, qshakes, qfaulty, qhands,
                   plainOut, tlsOut>>

\* stream.set_read_timeout(..)?; stream.set_write_timeout(..)?;
SecTimeouts ==
    /\ qpc = "timeouts"
    /\ \/ qpc' = "scheme" /\ UNCHANGED qret
       \/ qfaulty /\ SecFail("timeouts")
    /\ UNCHANGED <<nonSecVars, qscheme, qcert, qshakes, qfaulty, qhands,
                   plainOut, tlsOut>>

\* if self.inner.uri.scheme() == "https" { .. } else { .. }
SecScheme ==
    /\ qpc = "scheme"
    /\ qpc' = IF IsHttps(qscheme) THEN "cert" ELSE "plain"
    /\ UNCHANGED <<nonSecVars, qscheme, qcert, qshakes, qfaulty, qret, qhands,
                   plainOut, tlsOut>>

\* match self.root_cert_file_pem { Some(p) => cnf.add_root_cert_file_pem(p)?,
\* None => &mut cnf }
SecCert ==
    /\ qpc = "cert"
    /\ IF qcert = "bad"
          THEN SecFail("cert")
          ELSE qpc' = "handshake" /\ UNCHANGED qret
    /\ UNCHANGED <<nonSecVars, qscheme, qcert, qshakes, qfaulty, qhands,
                   plainOut, tlsOut>>

\* let mut stream = cnf.connect(host, stream)?;
SecHandshake ==
    /\ qpc = "handshake"
    /\ IF qshakes
          THEN /\ qpc' = "secure"
               /\ qhands' = qhands + 1
               /\ UNCHANGED qret
          ELSE /\ SecFail("handshake")
               /\ UNCHANGED qhands
    /\ UNCHANGED <<nonSecVars, qscheme, qcert, qshakes, qfaulty, plainOut,
                   tlsOut>>

\* self.inner.send(&mut stream, writer): write_msg writes the message with
\* write_all, some bytes at a time, to the stream it was given; a failed
\* write returns Err.
SecWrite ==
    /\ qpc \in {"plain", "secure"}
    /\ \/ \E k \in 1..(Len(RequestMsg) - Len(plainOut \o tlsOut)) :
             \E chunk \in {SubSeq(RequestMsg, Len(plainOut \o tlsOut) + 1,
                                  Len(plainOut \o tlsOut) + k)} :
                /\ IF qpc = "plain"
                      THEN plainOut' = plainOut \o chunk /\ UNCHANGED tlsOut
                      ELSE tlsOut' = tlsOut \o chunk /\ UNCHANGED plainOut
                /\ IF Len(plainOut \o tlsOut) + k = Len(RequestMsg)
                      THEN qpc' = "done" /\ qret' = "Ok"
                      ELSE UNCHANGED <<qpc, qret>>
       \/ /\ qfaulty
          /\ SecFail("write")
          /\ UNCHANGED <<plainOut, tlsOut>>
    /\ UNCHANGED <<nonSecVars, qscheme, qcert, qshakes, qfaulty, qhands>>

SecNext ==
    SecConnect \/ SecTimeouts \/ SecScheme \/ SecCert \/ SecHandshake \/ SecWrite

SecSpec == SecInit /\ [][SecNext]_vars

(***************************************************************************)
(* Claims about the deadline channel I/O.                                  *)
(***************************************************************************)
\* C2: with one producer in send_all and one consumer in receive_all, the
\* writer's content is always a prefix of the bytes the producer has read
\* from the source, which are a prefix of the source in source order; and
\* when receive_all returns Ok the writer holds exactly the bytes the
\* producer read and sent before it stopped.
C2_WriterIsSourcePrefix ==
    cmode = "receive_all" =>
        /\ IsPrefix(writer, pread)
        /\ pread \o source = Source(Len(pread) + Len(source))
        /\ (cpc = "done" /\ cres = "Ok") =>
              /\ writer = psent
              /\ ppc = "dropped"
              /\ chan = <<>>

\* C2 witness: receive_all returned Ok after writing the whole source, which
\* reached it in at least two messages.
C2_Witness ==
    /\ cmode = "receive_all"
    /\ cpc = "done"
    /\ cres = "Ok"
    /\ nrecv >= 2
    /\ writer = Source(MaxSrc)

\* C7: receive and receive_all always return; and when the producer has
\* neither sent a message nor disconnected, what they return is
\* Err(Timeout), no earlier than the deadline.  Nothing is assumed of the
\* producer: its reads may block for ever.
C7_AlwaysReturns ==
    /\ <>(cmode = "generic" \/ cpc = "done")
    /\ []((cmode # "generic" /\ cpc = "done" /\ sentMsgs = <<>> /\ ppc # "dropped")
             => (cres = "Timeout" /\ now >= deadline /\ writer = <<>>))

\* C7 witness: receive_all returned Err(Timeout) while the producer was
\* still blocked in its first read.
C7_Witness ==
    /\ cmode = "receive_all"
    /\ cpc = "done"
    /\ cres = "Timeout"
    /\ ppc = "read"
    /\ pread = <<>>
    /\ now >= deadline

\* C8 (as stated): ..., and execute_with_deadline returns Err(Timeout) iff
\* the deadline is found passed at the top of an iteration.
C8_TimeoutIffDeadlinePassed ==
    (cmode # "receive" /\ cpc = "done") => (cres = "Timeout" <=> topTimeout)

\* C8 (amended): func is only invoked when the sampled clock is not later
\* than the deadline, with remaining = deadline - now; the loop returns Ok
\* iff func returned Ok(true), returns func's Err at the first Err, returns
\* Err(Timeout) whenever the deadline is found passed at the top of an
\* iteration, and otherwise returns Err(Timeout) only when func returned
\* Err(Timeout).
C8_DeadlineLoop ==
    cmode # "receive" =>
        /\ cpc = "func" =>
              /\ sampled <= deadline
              /\ remaining_time = deadline - sampled
        /\ cpc = "done" =>
              /\ cres = "Ok" <=> funcRes = "OkTrue"
              /\ funcRes = "ErrIO" => cres = "IO"
              /\ funcRes = "ErrTimeout" => cres = "Timeout"
              /\ topTimeout => (cres = "Timeout" /\ sampled > deadline)
              /\ cres = "Timeout" => (topTimeout \/ funcRes = "ErrTimeout")
              /\ cres = "IO" => funcRes = "ErrIO"
        /\ funcRes \in {"OkTrue", "ErrIO", "ErrTimeout"} => cpc = "done"

\* C8 witness: func ran, returned Ok(false), and the next iteration found
\* the deadline passed.
C8_Witness ==
    /\ cmode = "generic"
    /\ cpc = "done"
    /\ topTimeout
    /\ funcRes = "OkFalse"
    /\ cres = "Timeout"

\* C9: receive_all ends in one of three ways: Err(Timeout), with the
\* deadline reached, when the wait for a message ran out on an empty queue
\* (or the deadline was found passed); Ok when the sender has disconnected
\* and the queue is drained; Err(IO) when writing a received message
\* failed.  The bytes written are always a prefix of the bytes sent, and
\* nothing is written after receive_all has returned.
C9_ReceiveAllEnds ==
    /\ [](cmode = "receive_all" =>
            /\ IsPrefix(writer, psent)
            /\ cpc = "done" =>
                  /\ cres \in {"Timeout", "Ok", "IO"}
                  /\ cres = "IO" <=> wfailed
                  /\ cres = "Ok" =>
                        (lastRecv = "Disconnected" /\ chan = <<>> /\ ppc = "dropped")
                  /\ cres = "Timeout" =>
                        /\ now >= deadline
                        /\ topTimeout \/ lastRecv = "Timeout"
            /\ wfailed => (cpc = "done" /\ cres = "IO"))
    /\ [][(cmode = "receive_all" /\ cpc = "done") =>
             (writer' = writer /\ nrecv' = nrecv /\ cres' = cres)]_vars

\* C9 witness: a write failed after an earlier message was written, and a
\* later message is still in the channel.
C9_Witness ==
    /\ cmode = "receive_all"
    /\ cpc = "done"
    /\ cres = "IO"
    /\ nrecv >= 2
    /\ writer # <<>>
    /\ chan # <<>>

\* C10: receive takes at most one message per call: it writes the first
\* message sent and leaves every later one in the channel; it returns
\* Err(Timeout), no earlier than the deadline and without writing, when its
\* wait ran out on an empty queue, and Ok without writing when the sender
\* disconnected with an empty queue.
C10_ReceiveOne ==
    cmode = "receive" =>
        /\ nrecv <= 1
        /\ chan = Drop(sentMsgs, nrecv)
        /\ (cpc = "done" /\ lastRecv = "msg") =>
              /\ nrecv = 1
              /\ cres = "Ok" <=> ~wfailed
              /\ cres = "Ok" => writer = sentMsgs[1]
              /\ IsPrefix(writer, sentMsgs[1])
        /\ (cpc = "done" /\ lastRecv = "Timeout") =>
              /\ cres = "Timeout"
              /\ writer = <<>> /\ nrecv = 0
              /\ now >= deadline
        /\ (cpc = "done" /\ lastRecv = "Disconnected") =>
              /\ cres = "Ok"
              /\ writer = <<>> /\ nrecv = 0
              /\ sentMsgs = <<>>
        /\ cpc = "done" => lastRecv # "none"
        /\ cres = "Timeout" => lastRecv = "Timeout"

\* C10 witness: receive wrote the first message while a later one stayed
\* queued.
C10_Witness ==
    /\ cmode = "receive"
    /\ cpc = "done"
    /\ cres = "Ok"
    /\ nrecv = 1
    /\ writer = sentMsgs[1]
    /\ Len(chan) >= 1

\* The producer's read of the source failed while bytes remained, after
\* every byte it had read was sent: send_all broke out of its loop on
\* Err(_), not on Ok(0) and not on a failed send.
ProducerReadFailed ==
    /\ ppc \in {"returned", "dropped"}
    /\ source # <<>>
    /\ pread = psent

\* C18 as stated: whenever the producer's read has failed after it sent
\* k bytes and receive_all has returned, it returned Ok(()) with exactly
\* those k bytes written.
C18_ProducerErrorIsOk ==
    (cmode = "receive_all" /\ cpc = "done" /\ ProducerReadFailed) =>
        (cres = "Ok" /\ writer = psent)

\* C18, amended: the producer's error never reaches the caller.  When the
\* producer's read has failed after it sent k bytes and receive_all has
\* returned, the result is Ok(()) with exactly those k bytes written,
\* unless the deadline was reached (Err(Timeout)) or a write to the writer
\* failed (Err(IO)); an Ok is what a normal end of body gives.
C18_ProducerErrorHidden ==
    (cmode = "receive_all" /\ cpc = "done" /\ ProducerReadFailed) =>
        /\ cres \in {"Ok", "Timeout", "IO"}
        /\ cres = "IO" <=> wfailed
        /\ cres = "Timeout" => now >= deadline
        /\ cres = "Ok" => (writer = psent /\ lastRecv = "Disconnected")
        /\ (~wfailed /\ lastRecv = "Disconnected") =>
              (cres = "Ok" /\ writer = psent)

\* The producer sent bytes, its next read failed with bytes left in the
\* source, and receive_all returned Ok(()) with the bytes sent.
C18_Witness ==
    /\ cmode = "receive_all" /\ cpc = "done"
    /\ ProducerReadFailed
    /\ cres = "Ok"
    /\ writer = psent
    /\ Len(psent) >= 2
    /\ nrecv >= 2

\* send_all has returned, or its thread has ended.
ProducerStopped == ppc \in {"returned", "dropped"}

C1_ReadToEof ==
    /\ []((wellFormed /\ ~faulty) =>
            /\ IsPrefix(out, expected)
            /\ lastRet[1] # "Err"
            /\ (lastRet = <<"Ok", 0>> => out = expected))
    /\ ((wellFormed /\ ~faulty) ~> (lastRet = <<"Ok", 0>> /\ out = expected))

\* The whole payload was read to Ok(0) from a well-formed stream.
C1_Witness ==
    /\ wellFormed /\ ~faulty
    /\ lastRet = <<"Ok", 0>>
    /\ out = expected
    /\ Len(out) = MaxPayload
    /\ kpc = "idle"

\* C11: the first error is latched.  Once err is set, no step changes the
\* decoder or reads the source, and every return of read is that error;
\* and a read of the source that fails while the chunk trailer is read
\* (as one that fails in the data or in a size line) sets err.
C11_ErrorLatched ==
    [][/\ (err # "none" =>
              /\ err' = err /\ csrc' = csrc /\ rbuf' = rbuf
              /\ n' = n /\ check_end' = check_end /\ eof' = eof)
       /\ ((err # "none" /\ kpc = "loop" /\ kpc' = "idle") =>
              lastRet' = <<"Err", err>>)
       /\ ((kpc = "footer" /\ kpc' = "loop" /\ csrc # <<>> /\ Len(footer') < 2)
              => err' # "none")]_vars

\* A read of the trailer failed after its first byte, on a source that
\* still has bytes, and the decoder goes on without an error.
C11_Witness ==
    /\ faulty /\ csrc # <<>>
    /\ kpc = "loop"
    /\ Len(footer) = 1
    /\ ~check_end
    /\ err = "none"

\* C14: a size line read as zero without error puts the decoder in the
\* EOF state; from then on eof stays set, no error appears, nothing is
\* read from the source or its buffer whatever bytes remain, and every
\* call of read that begins in this state returns Ok(0).
C14_EofPermanent ==
    [][/\ ((kpc = "line" /\ kpc' = "loop" /\ err' = "none" /\ n' = 0) => eof')
       /\ ((eof /\ err = "none") =>
              /\ eof' /\ err' = "none"
              /\ csrc' = csrc /\ rbuf' = rbuf
              /\ (kpc = "idle" => (kpc' = "loop" /\ consumed' = 0))
              /\ ((kpc = "loop" /\ consumed = 0) =>
                     (kpc' = "idle" /\ lastRet' = <<"Ok", 0>>
                      /\ out' = out)))]_vars

\* A read begun after the zero-size line returned Ok(0) while bytes after
\* that line were still unread.
C14_Witness ==
    /\ eof /\ err = "none"
    /\ kpc = "idle"
    /\ lastRet = <<"Ok", 0>>
    /\ Len(out) = MaxPayload
    /\ csrc \o rbuf # <<>>

\* "0123456789abcdef" and "0123456789ABCDEF": a hex digit's value is its
\* place in one of them.
LowerDigits ==
    <<48, 49, 50, 51, 52, 53, 54, 55, 56, 57, 97, 98, 99, 100, 101, 102>>

UpperDigits ==
    <<48, 49, 50, 51, 52, 53, 54, 55, 56, 57, 65, 66, 67, 68, 69, 70>>

IsHexDigit(b) == Position(LowerDigits, b) > 0 \/ Position(UpperDigits, b) > 0

DigitValue(b) ==
    IF Position(LowerDigits, b) > 0 THEN Position(LowerDigits, b) - 1
    ELSE Position(UpperDigits, b) - 1

AllHex(d) == \A i \in 1..Len(d) : IsHexDigit(d[i])

\* The hexadecimal value of at most WordNibbles digits, as a word: the
\* digits' values, zeros before them.
HexValueWord(d) ==
    [i \in 1..WordNibbles |->
        IF i <= WordNibbles - Len(d) THEN 0
        ELSE DigitValue(d[i - (WordNibbles - Len(d))])]

\* C12: on a size line of more than 16 hex digits begin_chunk sets an
\* InvalidData error and leaves no byte pending (so none of that chunk is
\* delivered); on a line of 1 to 16 hex digits of either case it sets no
\* error and the pending count is exactly the hexadecimal value.
C12_HexCap ==
    (hexRes # HexUnset /\ hexLine.ws = <<>> /\ hexLine.ext = <<>>
        /\ AllHex(hexLine.digits)) =>
        /\ Len(hexLine.digits) > 16 =>
              (hexRes.err = "InvalidData" /\ hexRes.word = ZeroWord)
        /\ Len(hexLine.digits) \in 1..16 =>
              (hexRes.err = "none"
               /\ hexRes.word = HexValueWord(hexLine.digits))

\* Sixteen digits "fffffffffffffffF" were accepted as 2^64 - 1.
C12_Witness ==
    /\ hexRes # HexUnset
    /\ hexLine.digits = [i \in 1..15 |-> 102] \o <<70>>
    /\ hexLine.ws = <<>> /\ hexLine.ext = <<>>
    /\ hexRes.err = "none"
    /\ hexRes.word = [i \in 1..WordNibbles |-> 15]

\* C13: a chunk extension on a size line, with or without white space
\* before the ';', changes nothing: begin_chunk leaves what it leaves on
\* the same line without the extension.
C13_ExtensionIgnored ==
    (hexRes # HexUnset /\ hexLine.ext # <<>>) =>
        hexRes = BeginChunkOn(hexLine.digits \o hexLine.ending)

\* The size line "1 ;x" was rejected.
C13_Witness ==
    /\ hexRes # HexUnset
    /\ hexLine.digits = <<49>>
    /\ hexLine.ws = <<32>> /\ hexLine.ext # <<>>
    /\ hexRes.err = "InvalidData"

\* C27: every call of read returns, whatever the bytes of the source and
\* wherever the source ends, also when it ends before the bytes the size
\* line declared have all been delivered.
C27_ReadReturns == (kpc # "idle") ~> (kpc = "idle")

\* The source ended inside a chunk: the call copied one byte of the two
\* declared, and a further read of the source returned Ok(0) and changed
\* nothing.
C27_Witness ==
    /\ kpc = "loop"
    /\ spin
    /\ csrc = <<>> /\ rbuf = <<>>
    /\ n = 1
    /\ consumed = 1
    /\ buf_len > consumed
    /\ err = "none" /\ ~eof /\ ~check_end

\* C28: the read of a chunk's trailer ends in one of two ways: with the
\* two bytes CR LF read, and the decoder goes on; or with InvalidData
\* stored and returned.  The decoder begins the size line of a further
\* chunk only after a trailer CR LF.
C28_TrailerChecked ==
    [][/\ (kpc = "footer" /\ kpc' # "footer") =>
              IF footer' = CR_LF
                  THEN kpc' = "loop" /\ err' = "none" /\ ~check_end'
                  ELSE /\ err' = "InvalidData"
                       /\ kpc' = "idle"
                       /\ lastRet' = <<"Err", "InvalidData">>
       /\ (kpc = "loop" /\ kpc' = "line" /\ line # <<>>) => footer = CR_LF]_vars

\* The source ended one byte into a trailer, with no error of the reader;
\* no error was stored and the decoder went on to the next chunk.
C28_Witness ==
    /\ ~faulty
    /\ kpc = "loop"
    /\ footer = <<13>>
    /\ ~check_end
    /\ csrc = <<>> /\ rbuf = <<>>
    /\ err = "none"
    /\ line # <<>>
    /\ consumed = 0

\* A step that calls the underlying reader: read_exact or read_until with
\* nothing in the internal buffer.
SourceRead == kpc \in {"footer", "line"} /\ rbuf = <<>>

\* C29: once a call has copied a byte (consumed > 0), the read of a
\* trailer begins only with 2 bytes in the internal buffer and the read of
\* a size line only with an LF in it, neither calls the underlying reader
\* nor takes a byte of the source, and where the buffer holds less the
\* call returns Ok(consumed).
C29_NoSourceReadAfterDelivery ==
    [][consumed > 0 =>
          /\ (kpc = "loop" /\ kpc' = "footer") => Len(rbuf) >= 2
          /\ (kpc = "loop" /\ kpc' = "line") => Position(rbuf, LF) > 0
          /\ kpc \in {"footer", "line"} => ~SourceRead /\ csrc' = csrc
          /\ (/\ kpc = "loop" /\ ~eof /\ err = "none"
              /\ \/ check_end /\ Len(rbuf) < 2
                 \/ ~check_end /\ n = 0 /\ Position(rbuf, LF) = 0)
             => /\ kpc' = "idle"
                /\ lastRet' = <<"Ok", consumed>>
                /\ csrc' = csrc /\ rbuf' = rbuf]_vars

\* A call returned the bytes it had copied with the trailer still to be
\* read, one byte of it buffered and more in the source.
C29_Witness ==
    /\ kpc = "idle"
    /\ lastRet[1] = "Ok" /\ lastRet[2] > 0 /\ lastRet[2] = consumed
    /\ check_end
    /\ Len(rbuf) = 1
    /\ csrc # <<>>
    /\ err = "none" /\ ~eof

\* C35: a call that returns Err has copied no byte into the caller's
\* buffer.
C35_NoErrAfterCopy ==
    (kpc = "idle" /\ lastRet[1] = "Err") => consumed = 0

\* A call copied a payload byte, then met a trailer that is not CR LF, and
\* returned Err(InvalidData).
C35_Witness ==
    /\ kpc = "idle"
    /\ lastRet = <<"Err", "InvalidData">>
    /\ consumed = 1
    /\ cbuf = <<97>>
    /\ footer = <<13, 120>>
    /\ out = <<>>

\* The digits of the size line raw: the line without its ending and its
\* extension.
SizeDigits(raw) == ChunkLine(raw).line

\* C37: while the source still holds data, a size line that was read (no
\* error of the reader) ends the stream, eof set and no error stored, only
\* if it has a digit and all its digits are '0'; and a size line without a
\* digit stores InvalidData.
C37_EofOnlyAfterZeroSize ==
    [][(/\ kpc = "line" /\ kpc' = "loop"
        /\ err' # "Other"
        /\ csrc' \o rbuf' # <<>>) =>
          /\ (eof' /\ err' = "none") =>
                /\ SizeDigits(line') # <<>>
                /\ \A i \in 1..Len(SizeDigits(line')) : SizeDigits(line')[i] = 48
          /\ (ChunkLine(line').ok /\ SizeDigits(line') = <<>>) =>
                err' = "InvalidData"]_vars

\* The decoder took the empty line after a chunk for the last chunk, with
\* the size line of the next chunk still in the source, and no error of the
\* reader.
C37_Witness ==
    /\ ~faulty
    /\ eof
    /\ err = "none"
    /\ line = CR_LF
    /\ csrc \o rbuf # <<>>
    /\ cbuf # <<>>

(***************************************************************************)
(* Claims about connecting.                                                *)
(***************************************************************************)
\* C15: the addresses are tried in resolution order, one at a time, and
\* none after one that connected or timed out; the call returns the first
\* stream that connects; a TimedOut failure is returned at once; and when
\* every address fails with another kind the error of the last address is
\* returned.
C15_ConnectInOrder ==
    /\ attempts = [i \in 1..Len(attempts) |-> i]
    /\ \A i \in 1..(Len(attempts) - 1) : addrs[i] \notin {"Ok", "TimedOut"}
    /\ (npc = "done" /\ attempts # <<>>) =>
          LET last == Len(attempts) IN
          /\ addrs[last] = "Ok" => connRet = <<"Ok", last>>
          /\ addrs[last] = "TimedOut" => connRet = <<"Err", "TimedOut", last>>
          /\ addrs[last] \notin {"Ok", "TimedOut"} =>
                (last = Len(addrs) /\ connRet = <<"Err", addrs[last], last>>)
    /\ (npc = "done" /\ connRet[1] = "Ok") =>
          (attempts # <<>> /\ addrs[connRet[2]] = "Ok")

\* The first address timed out, later ones would have connected, and the
\* timeout was returned after one attempt.
C15_Witness ==
    /\ npc = "done"
    /\ Len(addrs) = MaxAddrs
    /\ addrs[1] = "TimedOut" /\ addrs[2] = "Ok"
    /\ attempts = <<1>>
    /\ connRet = <<"Err", "TimedOut", 1>>

\* C16: try_to_https returns a secure stream exactly when the input was
\* secure or the scheme is "https" and the handshake succeeded; with any
\* other scheme a plain input is returned as it is and no handshake or
\* certificate load is attempted; and with scheme "https" a plain input
\* never comes back plain: a failed handshake or certificate load is an
\* error.
C16_SecureIffHttps ==
    /\ (~IsHttps(tlsScheme) \/ tlsIn.secure) =>
          (handshakes = 0 /\ certLoads = 0)
    /\ tpc = "done" =>
          /\ (tlsRet[1] = "Ok" /\ tlsRet[2].secure) <=>
                (tlsIn.secure
                    \/ (tlsScheme = "https" /\ handshakes = 1 /\ tlsShakes))
          /\ (~tlsIn.secure /\ tlsScheme # "https") => tlsRet = <<"Ok", tlsIn>>
          /\ tlsIn.secure => tlsRet = <<"Ok", tlsIn>>
          /\ (~tlsIn.secure /\ tlsScheme = "https"
                /\ (tlsCert = "bad" \/ (handshakes = 1 /\ ~tlsShakes)))
                => tlsRet[1] = "Err"
          /\ (tlsRet[1] = "Ok" /\ ~tlsRet[2].secure) => tlsScheme # "https"

\* A plain stream with scheme "https" was upgraded after loading a
\* certificate file.
C16_Witness ==
    /\ tpc = "done"
    /\ ~tlsIn.secure /\ tlsScheme = "https" /\ tlsCert = "good"
    /\ certLoads = 1 /\ handshakes = 1
    /\ tlsRet = <<"Ok", [secure |-> TRUE, tcp |-> tlsIn.tcp]>>

\* C36: with the scheme "https" no byte of the message is written to the
\* TcpStream itself; bytes are written to the TLS stream only after the one
\* handshake, which succeeded, with the certificate file loaded if one was
\* given; a failure of the certificate file or of the handshake returns
\* Err with no byte written to either.
C36_HttpsNeverPlain ==
    /\ qscheme = "https" => plainOut = <<>>
    /\ tlsOut # <<>> => (qhands = 1 /\ qshakes /\ qcert # "bad")
    /\ qret \in {"cert", "handshake"} => (plainOut = <<>> /\ tlsOut = <<>>)
    /\ IsPrefix(plainOut \o tlsOut, RequestMsg)

\* An https request was sent: the whole message went to the TLS stream.
C36_Witness ==
    /\ qscheme = "https"
    /\ qpc = "done"
    /\ qret = "Ok"
    /\ tlsOut = RequestMsg
    /\ plainOut = <<>>

(***************************************************************************)
(* Claims about a request.                                                 *)
(***************************************************************************)
\* C3: when send of a method other than HEAD returns Ok for a response
\* whose head carries Content-Length: k and whose peer delivered at least k
\* bytes after the head, the writer holds exactly the first k of those
\* bytes.
C3_ContentLengthBody ==
    (/\ spc = "done" /\ result = "Ok"
     /\ CopiesBody(method)
     /\ HeadersGet(response.headers, ContentLengthName)[1] = "Some"
     /\ content_len(response.headers).ok
     /\ Len(sentBody) >= content_len(response.headers).val)
        => rwriter = Take(sentBody, content_len(response.headers).val)

\* A response declaring one byte, of which the peer sent two, was copied.
C3_Witness ==
    /\ spc = "done" /\ result = "Ok"
    /\ CopiesBody(method)
    /\ content_len(response.headers).val = 1
    /\ Len(sentBody) = 2

\* C4: the writer receives no byte before from_head has built the
\* response, and whenever send ends without a response built (the head
\* could not be read or parsed), send has returned an error and the writer
\* is empty.
C4_NoWriteBeforeHead ==
    /\ (rwriter # <<>> => (spc \in {"copy", "done"} /\ response.code # 0))
    /\ ((spc = "done" /\ result # "none" /\ response.code = 0)
            => (result = "Err" /\ rwriter = <<>>))

\* The peer closed without sending a byte and send is over.
C4_Witness ==
    /\ spc = "done" /\ result # "none"
    /\ sentHead = HeadNone /\ sentBody = <<>>
    /\ requests = 1
    /\ buf = <<>>
    /\ ~sfaulty

\* C6: when send returns a 3xx response that carries a Location, it has
\* issued a further request (the default policy allows redirects); when it
\* returns a 3xx response without Location, that response is the one the
\* peer sent and no further request was issued.
C6_RedirectFollowed ==
    (spc = "done" /\ result = "Ok" /\ is_redirect(response.code)) =>
        IF HeadersGet(response.headers, LocationName)[1] = "Some"
            THEN requests >= 2
            ELSE /\ requests = 1
                 /\ response.code = parse_head(sentHead).code
                 /\ response.headers = parse_head(sentHead).headers

\* send returned a 3xx response with a Location.
C6_Witness ==
    /\ spc = "done" /\ result = "Ok"
    /\ is_redirect(response.code)
    /\ HeadersGet(response.headers, LocationName) = <<"Some", <<47, 98>>>>

\* C17: when send returns Ok, the writer has received bytes only if the
\* method is not HEAD and the content length is greater than zero (a
\* missing Content-Length counting as greater than zero), and in that case
\* it has received the body the peer sent.
BodyExpected ==
    /\ method # "HEAD"
    /\ \/ HeadersGet(response.headers, ContentLengthName)[1] = "None"
       \/ ~content_len(response.headers).ok
       \/ content_len(response.headers).val > 0

C17_DrainIffNonEmpty ==
    (spc = "done" /\ result = "Ok") =>
        /\ rwriter # <<>> => BodyExpected
        /\ (BodyExpected /\ sentBody # <<>>) => rwriter # <<>>

\* A GET whose response declared Content-Length: 0 ended with Ok, and the
\* peer had sent a byte after the head.
C17_Witness ==
    /\ spc = "done" /\ result = "Ok"
    /\ method = "GET"
    /\ sentHead = HeadLen0
    /\ Len(sentBody) = 1

\* A name in lower case and in upper case.
ToLower(name) ==
    [i \in 1..Len(name) |->
        IF name[i] >= 65 /\ name[i] <= 90 THEN name[i] + 32 ELSE name[i]]

ToUpper(name) ==
    [i \in 1..Len(name) |->
        IF name[i] >= 97 /\ name[i] <= 122 THEN name[i] - 32 ELSE name[i]]

\* C23: on the headers of a parsed response, get gives the same result for
\* a name, for the name in lower case and for the name in upper case; a
\* response carrying "content-length: 1" has content_len() = 1, as one
\* carrying "Content-Length: 1" has.
C23_GetFoldsCase ==
    response.code # 0 =>
        /\ \A name \in {response.headers[i][1] : i \in 1..Len(response.headers)}
                       \cup {ContentLengthName, LocationName} :
              /\ HeadersGet(response.headers, ToLower(name))
                    = HeadersGet(response.headers, name)
              /\ HeadersGet(response.headers, ToUpper(name))
                    = HeadersGet(response.headers, name)
        /\ sentHead \in {HeadLen1, HeadLowerLen1} =>
              content_len(response.headers) = [ok |-> TRUE, val |-> 1]

\* The response with "content-length: 1" was parsed and send is over.
C23_Witness ==
    /\ spc = "done" /\ result = "Ok"
    /\ sentHead = HeadLowerLen1
    /\ response.code = 200
    /\ response.headers = <<<<ToLower(ContentLengthName), <<49>>>>>>

\* C24: parsing a head never aborts, and send returns an error for every
\* head that does not parse: a status line of fewer than three parts or
\* with a code that is not a number, a header line without ':', and a
\* buffer without a line break.
C24_MalformedHeadIsError ==
    /\ result # "panic"
    /\ (spc = "done" /\ parse_head(buf).kind # "Ok") => result = "Err"

\* The head "H 200\r\n\r\n", whose status line has two parts, was read
\* whole and parse_head aborted on it.
C24_Witness ==
    /\ spc = "done"
    /\ sentHead = HeadTwoParts
    /\ IsPrefix(sentHead, buf)
    /\ result = "panic"

\* C26: a response whose head lines end with bare LF is accepted like its
\* CRLF form: when send is over (no I/O failure), it returned Ok, the head
\* read is the head sent and none of the body, and the status and headers
\* are those of the CRLF form.
C26_BareLFAccepted ==
    (spc = "done" /\ sentHead = HeadBareLF /\ ~sfaulty) =>
        /\ result = "Ok"
        /\ buf = sentHead
        /\ response.code = parse_head(HeadLen1).code
        /\ response.headers = parse_head(HeadLen1).headers

\* The bare-LF head was followed by a body byte; the head read took the
\* body as well and send returned an error.
C26_Witness ==
    /\ spc = "done"
    /\ sentHead = HeadBareLF
    /\ ~sfaulty
    /\ sentBody = Body(1)
    /\ buf = sentHead \o sentBody
    /\ result = "Err"

\* The lines of the header block of a head: what follows the status line,
\* trimmed.
BlockLines(head) == Lines(Trim(SplitN(head, LF, 2)[2]))

\* The entry of a header line: the text before its first ':' and the text
\* after it, without one leading space.
EntryOf(elem) ==
    <<Take(elem, Position(elem, 58) - 1),
      IF Len(elem) > Position(elem, 58) /\ elem[Position(elem, 58) + 1] = 32
          THEN Drop(elem, Position(elem, 58) + 1)
          ELSE Drop(elem, Position(elem, 58))>>

\* C38: for a head with a status line that parses and a header block whose
\* lines all hold a ':', the parse ends without a panic and every entry is
\* the text before the first ':' of its line and the text after it without
\* one leading space.
C38_ValueAfterColon ==
    (/\ spc = "done"
     /\ result \in {"Ok", "panic"}
     /\ Len(SplitN(buf, LF, 2)) = 2
     /\ StatusFromStr(SplitN(buf, LF, 2)[1]).kind = "Ok"
     /\ \A i \in 1..Len(BlockLines(buf)) : Position(BlockLines(buf)[i], 58) > 0)
    => /\ result = "Ok"
       /\ response.headers
             = [i \in 1..Len(BlockLines(buf)) |-> EntryOf(BlockLines(buf)[i])]

\* The head with the line "X:ab" was parsed: the value stored for X is "b".
C38_Witness ==
    /\ sentHead = HeadNoSpace
    /\ result = "Ok"
    /\ response.headers = <<<<<<88>>, <<98>>>>>>

\* The bytes of s through the first occurrence of val, all of s when val
\* does not occur.
ThroughFirst(s, val) ==
    IF Find(s, val) = -1 THEN s ELSE Take(s, Find(s, val) + Len(val))

\* C39: when copy_until has ended, the bytes it hands on are the bytes the
\* peer sent through the first CR LF CR LF (all of them without one), the
\* bytes after that are still in the stream, and read is their number.
C39_CopyUntilFirst ==
    spc = "parse" =>
        /\ buf = ThroughFirst(sentHead \o sentBody, CR_LF_2)
        /\ buf \o stream = sentHead \o sentBody
        /\ read = Len(buf)

\* The first read returned the whole head and a byte of the body: the
\* copy went on to the end of the stream.
C39_Witness ==
    /\ spc = "parse"
    /\ Len(sentHead) < PreBufLen
    /\ EndsWith(sentHead, CR_LF_2)
    /\ sentBody # <<>>
    /\ buf = sentHead \o sentBody
    /\ stream = <<>>

(***************************************************************************)
(* Claims about the redirect policy.                                       *)
(***************************************************************************)
\* C5: with Limit(n), the i-th call of follow returns true exactly when
\* i <= n; a send follows at most n redirects and issues at most n + 1
\* requests, whatever the chain of 3xx responses, cyclic ones included; and
\* when the limit ends the chain, send returns the last 3xx response.
C5_LimitBoundsHops ==
    /\ \A i \in 1..Len(follows) : follows[i] = (i <= limit0)
    /\ hops <= limit0
    /\ issued <= limit0 + 1
    /\ (dpc = "done" => (issued = hops + 1 /\ final = chain[current]))
    /\ ((dpc = "done" /\ follows # <<>> /\ ~follows[Len(follows)])
            => (hops = limit0 /\ final.redirect))

\* A cycle of two redirecting hosts was followed until the limit denied.
C5_Witness ==
    /\ dpc = "done"
    /\ limit0 = MaxLimit
    /\ hops = limit0
    /\ issued = limit0 + 1
    /\ chain[1].location = 2 /\ chain[2].location = 1
    /\ follows # <<>> /\ ~follows[Len(follows)]


(***************************************************************************)
(* Claims about URIs.                                                      *)
(***************************************************************************)
\* C19: for every string that Uri::try_from parses without error,
\* resource() begins with '/' and holds no space, and it is "/" when the
\* path is absent.
C19_ResourceIsTarget ==
    uriRes.ret = "Ok" =>
        /\ Head(resource(uriRes, uriStr)) = 47
        /\ ~Contains(resource(uriRes, uriStr), <<32>>)
        /\ ~uriRes.path.some => resource(uriRes, uriStr) = <<47>>

\* "a:a a" is parsed without error and its resource is "a a".
C19_Witness ==
    /\ uriStr = <<97, 58, 97, 32, 97>>
    /\ uriRes.ret = "Ok"
    /\ resource(uriRes, uriStr) = <<97, 32, 97>>

\* C20: try_from returns UriErr for every string without ':' and for
\* every string with nothing before its first ':'; the scheme of a parsed
\* URI is not empty, starts the string, and is followed by ':'.
C20_SchemeRequired ==
    uriRes # UriUnset =>
        /\ ~Contains(uriStr, <<58>>) => uriRes.ret = "UriErr"
        /\ Find(uriStr, <<58>>) = 0 => uriRes.ret = "UriErr"
        /\ uriRes.ret = "Ok" =>
              /\ uriRes.scheme.some
              /\ uriRes.scheme.start = 0
              /\ uriRes.scheme.end > 0
              /\ uriRes.scheme.end < Len(uriStr)
              /\ uriStr[uriRes.scheme.end + 1] = 58

\* "aa", with no ':', is parsed without error: the scheme is the whole
\* string.
C20_Witness ==
    /\ uriStr = <<97, 97>>
    /\ uriRes.ret = "Ok"
    /\ uriRes.scheme = Some(0, 2)

\* The string has the form scheme://authority/...: a non-empty scheme, "://",
\* a non-empty authority without '/', and a '/'.
HasAuthorityAndSlash(s) ==
    /\ Find(s, <<58>>) > 0
    /\ Find(s, <<58, 47, 47>>) = Find(s, <<58>>)
    /\ Find(SubSeq(s, Find(s, <<58>>) + 4, Len(s)), <<47>>) > 0

\* The offset in s of the '/' that ends the authority.
AuthorityEnd(s) ==
    Find(s, <<58>>) + 3 + Find(SubSeq(s, Find(s, <<58>>) + 4, Len(s)), <<47>>)

\* C21: a parsed URI of the form scheme://authority/... has a path, and
\* the path's range starts at the '/' that ends the authority; so the
\* path of scheme://host/ is "/".
C21_PathAtAuthorityEnd ==
    (uriRes.ret = "Ok" /\ HasAuthorityAndSlash(uriStr)) =>
        /\ uriRes.path.some
        /\ uriRes.path.start = AuthorityEnd(uriStr)

\* "a://a/" is parsed without error and has no path.
C21_Witness ==
    /\ uriStr = <<97, 58, 47, 47, 97, 47>>
    /\ uriRes.ret = "Ok"
    /\ uriRes.authority.some
    /\ ~uriRes.path.some

\* The authority of a string scheme://authority...: its offset in s, and
\* its text, which ends before the first '/' after "//".
AuthorityStart(s) == Find(s, <<58>>) + 3

AuthorityText(s) ==
    LET rest == SubSeq(s, AuthorityStart(s) + 1, Len(s))
    IN  IF Contains(rest, <<47>>) THEN SubSeq(rest, 1, Find(rest, <<47>>))
        ELSE rest

\* The positions in s of the bytes of the password: in the userinfo (the
\* authority's text before its first '@'), the bytes after the first ':'.
PasswordPositions(s) ==
    LET auth == AuthorityText(s)
        at == Find(auth, <<64>>)
        colon == Find(SubSeq(auth, 1, at), <<58>>)
    IN  IF /\ Find(s, <<58>>) > 0
           /\ Find(s, <<58, 47, 47>>) = Find(s, <<58>>)
           /\ at # -1
           /\ colon # -1
        THEN {AuthorityStart(s) + j : j \in (colon + 2)..at}
        ELSE {}

\* s with '*' in place of each byte of the password.
Masked(s) ==
    [i \in 1..Len(s) |-> IF i \in PasswordPositions(s) THEN 42 ELSE s[i]]

\* The strings that differ from s only in the bytes of the password.
PasswordVariants(s) ==
    {[i \in 1..Len(s) |-> IF i \in PasswordPositions(s) THEN pw[i] ELSE s[i]] :
        pw \in [PasswordPositions(s) -> {97, 49, 58, 91, 93}]}

\* C22: the formatted Uri, and its formatted Authority, are the input with
\* '*' in place of each byte of the password and every other byte as it
\* was; the strings that differ from the input only in the bytes of the
\* password format to the same string.
C22_PasswordMasked ==
    uriFmt # <<>> =>
        /\ uriFmt = Masked(uriStr)
        /\ uriRes.authority.some =>
              Authority_fmt(uriRes.authority) =
                  SubSeq(Masked(uriStr), AuthorityStart(uriStr) + 1,
                         AuthorityStart(uriStr) + Len(AuthorityText(uriStr)))
        /\ \A t \in PasswordVariants(uriStr) :
              /\ Uri_try_from(t).ret = "Ok"
              /\ Uri_fmt(Uri_try_from(t), t) = uriFmt

\* A URI with a password of two bytes and a port was formatted, and the
\* result differs from the input.
C22_Witness ==
    /\ uriFmt # <<>>
    /\ Cardinality(PasswordPositions(uriStr)) = 2
    /\ uriRes.authority.port.some
    /\ uriRes.path.some
    /\ uriFmt # uriStr

\* The text after the first ':' of s (s holds one).
AfterColon(s) == SubSeq(s, Position(s, 58) + 1, Len(s))

\* That text begins with "//".
SlashesAfterColon(s) == IsPrefix(<<47, 47>>, AfterColon(s))

\* C32: a parsed URI has an authority only when "//" comes directly after
\* the scheme's ':', and has one when a byte other than '/' follows that
\* "//"; without "//" there, the path begins directly after the ':' unless
\* a '?' or '#' does.
C32_AuthorityOnlyAfterScheme ==
    (uriRes.ret = "Ok" /\ Position(uriStr, 58) > 0) =>
        /\ uriRes.authority.some => SlashesAfterColon(uriStr)
        /\ (/\ SlashesAfterColon(uriStr)
            /\ Len(AfterColon(uriStr)) > 2
            /\ AfterColon(uriStr)[3] # 47) => uriRes.authority.some
        /\ (~SlashesAfterColon(uriStr) /\ AfterColon(uriStr) # <<>>) =>
              /\ uriRes.path.some => uriRes.path.start = Position(uriStr, 58)
              /\ AfterColon(uriStr)[1] \notin {63, 35} => uriRes.path.some

\* "a:a?a=a://a" is parsed, the "//" being inside the query: it has an
\* authority, "a=a:".
C32_Witness ==
    /\ uriStr = <<97, 58, 97, 63, 97, 61, 97, 58, 47, 47, 97>>
    /\ uriRes.ret = "Ok"
    /\ uriRes.authority.some
    /\ uriRes.authority.inner = <<97, 61, 97, 58>>

\* The path of the base: from the start of the path to the first '?' or
\* '#' after it, empty without a path.
BasePath(u, s) ==
    IF ~u.path.some THEN <<>>
    ELSE LET rest == SubSeq(s, u.path.start + 1, Len(s))
             stops == {i \in 1..Len(rest) : rest[i] \in {63, 35}}
         IN  IF stops = {} THEN rest
             ELSE Take(rest, (CHOOSE i \in stops : \A j \in stops : i <= j) - 1)

\* t up to and with its last '/' (t holds one).
ThroughLastSlash(t) == Take(t, RFind(t, <<47>>) + 1)

\* r without a leading "./".
WithoutDotSlash(r) == IF IsPrefix(<<46, 47>>, r) THEN Drop(r, 2) ELSE r

\* The bytes of the base before its path: scheme and authority.
BasePrefix(u, s) ==
    IF u.path.some THEN Take(s, u.path.start) ELSE trim_end_matches(s, 47)

\* C33: for a relative-path reference (first byte not '/', '?' or '#') and
\* a base whose path holds a '/', the string written is the base's prefix,
\* the base path through its last '/', and the reference without a leading
\* "./".
C33_JoinAtLastSlashOfPath ==
    (/\ relOut.ret # "unset"
     /\ relStr # <<>>
     /\ relStr[1] \notin {47, 63, 35}
     /\ Contains(BasePath(uriRes, uriStr), <<47>>)) =>
        relOut.str = BasePrefix(uriRes, uriStr)
                        \o ThroughLastSlash(BasePath(uriRes, uriStr))
                        \o WithoutDotSlash(relStr)

\* "x/y" was resolved against "s://h/p/q": the result is "s://h/p/y".
C33_Witness ==
    /\ uriStr = <<115, 58, 47, 47, 104, 47, 112, 47, 113>>
    /\ relStr = <<120, 47, 121>>
    /\ relOut.ret = "Ok"
    /\ relOut.str = <<115, 58, 47, 47, 104, 47, 112, 47, 121>>

(***************************************************************************)
(* Claims about the request message.                                       *)
(***************************************************************************)
\* A number in decimal digits.
RECURSIVE Dec(_)
Dec(k) == IF k < 10 THEN <<48 + k>> ELSE Dec(k \div 10) \o <<48 + (k % 10)>>

\* The bytes of a message after its blank line.
AfterBlankLine(msg) == SubSeq(msg, Find(msg, CR_LF_2) + 5, Len(msg))

\* The header line "Content-Length: k".
ContentLengthLine(k) == CR_LF \o ContentLengthName \o <<58, 32>> \o Dec(k) \o CR_LF

\* C25: when body(slice) was the last call before parse_msg, the headers
\* hold Content-Length with the length of the slice, and the message
\* carries a Content-Length line with the number of bytes that follow its
\* blank line.
C25_BodySetsContentLength ==
    (request_msg # <<>> /\ lastCall = "body") =>
        /\ ContentLengthName \in DOMAIN bheaders
        /\ bheaders[ContentLengthName] = Dec(Len(bbody.bytes))
        /\ AfterBlankLine(request_msg) = bbody.bytes
        /\ Contains(SubSeq(request_msg, 1, Find(request_msg, CR_LF_2) + 2),
                    ContentLengthLine(Len(AfterBlankLine(request_msg))))

\* A POST with a body of two bytes, set by the last call, was serialized
\* and carries no Content-Length.
C25_Witness ==
    /\ request_msg # <<>>
    /\ lastCall = "body"
    /\ bmethod = "POST"
    /\ Len(bbody.bytes) = 2
    /\ AfterBlankLine(request_msg) = bbody.bytes
    /\ ContentLengthName \notin DOMAIN bheaders

(***************************************************************************)
(* Claims about read_head and send_head.                                   *)
(***************************************************************************)
\* The line of s that ends at position i is CR LF alone: CR at i - 1, LF
\* at i, and the start of s or an LF before them.
BlankLineAt(s, i) ==
    /\ i >= 2 /\ i <= Len(s)
    /\ s[i - 1] = 13 /\ s[i] = 10
    /\ i = 2 \/ s[i - 2] = 10

\* The length of s through its first blank line, all of s without one.
HeadLength(s) ==
    IF \E i \in 1..Len(s) : BlankLineAt(s, i)
        THEN CHOOSE i \in 1..Len(s) :
                 /\ BlankLineAt(s, i)
                 /\ \A j \in 1..(i - 1) : ~BlankLineAt(s, j)
        ELSE Len(s)

\* C30: once read_head has returned, its buffer is the source from its
\* start through the first CR LF-only line, or through the end of the
\* source, or up to the point of the first error of the reader; the bytes
\* after it are still in the reader; send_head sends the buffer as the one
\* message, and sends none without a Receiver, ending all the same.
C30_HeadThroughBlankLine ==
    /\ hpc \in {"send", "done"} =>
          /\ IsPrefix(hbuf, Take(horig, HeadLength(horig)))
          /\ ~hfailed => hbuf = Take(horig, HeadLength(horig))
          /\ hbuf \o hbuffer \o hreader = horig
    /\ hpc # "done" => hsent = <<>>
    /\ hpc = "done" => hsent \in {<<>>, <<hbuf>>}
    /\ (hpc = "done" /\ hrcv) => hsent = <<hbuf>>

\* A head ending with a blank line and a byte after it was sent: the byte
\* is still in the reader.
C30_Witness ==
    /\ hpc = "done"
    /\ horig = <<97, 10, 13, 10, 97>>
    /\ hsent = <<<<97, 10, 13, 10>>>>
    /\ hbuffer \o hreader = <<97>>

(***************************************************************************)
(* Claims about the data branch at full width.                             *)
(***************************************************************************)
\* The word w stands for a number below k (k < 16).
WordBelow(w, k) ==
    (\A i \in 1..(WordNibbles - 1) : w[i] = 0) /\ w[WordNibbles] < k

\* C34: the data branch never panics on consumed + self.n, on the slice
\* or on self.n -= n0, and end is min(consumed + n, buf.len()) over the
\* integers: buf.len() unless n is below buf.len() - consumed.
C34_NoOverflow ==
    /\ eret \in {"none", "ok"}
    /\ epc = "read" =>
          eend = IF WordBelow(en, ebuf_len - econsumed)
                     THEN econsumed + en[WordNibbles]
                     ELSE ebuf_len

\* The size line "ffffffffffffffff" with one byte already copied in the
\* call, in a release build: the sum wraps to 0 and the slice panics.
C34_Witness ==
    /\ eline = Rep(102, 16)
    /\ econsumed = 1
    /\ ebuild = "release"
    /\ eret = "slice index"
    /\ eend = 0

====
